---- MODULE Spec2Model ----
(***************************************************************************)
(* PDFOCRExtractor (src/core/pdf_ocr_extractor.py): the recognition cache, *)
(* the SQLite document index, the batch orchestrator and keyword search.   *)
(*                                                                         *)
(* Spec       batch_ocr_folder runs over a folder whose files other        *)
(*            programs modify between the runs; the batch is a sequential  *)
(*            process whose steps are the statements of its loop body.     *)
(* SpecOcr    direct ocr_single_pdf calls and file modifications.          *)
(* SpecIndex  direct index_pdf calls, file modifications, the clock.       *)
(* SpecSearch search_keyword calls over an index of character texts.       *)
(***************************************************************************)
EXTENDS Integers, Sequences, FiniteSets, TLC

(***************************************************************************)
(* Bounds of the model.                                                    *)
(***************************************************************************)
\* PDF files of the scanned folder; file f sorts at position f.
NumFiles == 3
\* Modification times (st_mtime_ns) a file takes: 1..MaxTime.
MaxTime == 2
MaxClock == 1
MaxRows == 2
MaxLimit == 2
MaxContext == 2

\* index_pdf line 153: text[:500_000].
TEXT_CAP == 500000

Files == 1..NumFiles
Times == 1..MaxTime

DEFAULT_LANG == "chi_tra+eng"
DEFAULT_DPI == 300

\* The folder argument as the caller spells it.
FOLDER == "docs"

\* SQL NULL in the INTEGER column file_modified_at (no modification time is -1).
NULL == -1

\* Values in that column which are not integers, as a row written by another
\* program can hold them: a text that is no number ('abc'), a REAL beyond the
\* 64-bit integers (1e30), the REAL Infinity.
TEXT_ABC == -2
REAL_1E30 == -3
REAL_INF == -4
\* Python's None where a record is expected, and "no exception".
None == [none |-> TRUE]
NoExc == "none"

Min(a, b) == IF a < b THEN a ELSE b
Max(a, b) == IF a > b THEN a ELSE b

VARIABLES
    mtime,      \* file system: st_mtime_ns of each file of the folder
    readable,   \* file system: whether the file's content can be rendered
    missing,    \* optional imports that failed (module globals left None)
    scratch,    \* file system: the scratch files in the temporary directory
    log,        \* file system: log_path, whether it can be appended to and
                \* whether a line has been written to it
    cache,      \* cache_dir: fingerprint |-> payload, None where no file
    index,      \* table pdf_index: the rows in rowid order
    now,        \* wall clock in whole seconds (created_at resolution)
    pc,         \* batch_ocr_folder: the statement the call is at
    run,        \* batch_ocr_folder: arguments, pdf_files, loop position
    stats,      \* batch_ocr_folder: the stats dict
    events,     \* what the progress sink has received in this call
    tmp,        \* locals of the running call: batch_ocr_folder's (text,
                \* page_count) between lines 212 and 220, _ocr_via_ocrmypdf's
                \* tmp_path and pending outcome
    ret,        \* the last return value or exception of a public call
    seen,       \* history: what ocr_single_pdf(use_cache) last returned per file
    base,       \* history: the index when the running batch call started
    since,      \* history: how each mtime moved since the last batch call
    upserted,   \* history: the path strings index_pdf was called with
    gui,        \* SearchDialog: the search button, the worker threads it
                \* started, Tk's queue of after() callbacks, what was shown
    job         \* PDFWorker: the thread's fields and the callbacks it invoked

vars == <<mtime, readable, missing, scratch, log, cache, index, now, pc, run, stats, events,
          tmp, ret, seen, base, since, upserted, gui, job>>

\* The log file of a fresh installation: appendable, nothing written.
NoLog == [writable |-> TRUE, written |-> FALSE]

\* SearchDialog.__init__ (lines 17-29): the button enabled, self.worker None.
NoGui == [search_btn |-> "normal", threads |-> <<>>, after |-> <<>>,
          shown |-> {}, died |-> {}]

\* No PDFWorker has been constructed.
NoJob == [at |-> "none", operation |-> "", fails |-> FALSE, on_complete |-> "",
          on_error |-> "", error |-> "", calls |-> <<>>, uncaught |-> FALSE]

diskVars == <<mtime, readable, missing, scratch>>
fsVars == <<diskVars, log>>
batchVars == <<run, stats, events, tmp, base>>
histVars == <<seen, since, upserted>>

(***************************************************************************)
(* Paths.  A Path is the folder spelling joined with the file name; the    *)
(* index keys on str(path), the cache on path.resolve().                   *)
(***************************************************************************)
PathOf(folder, f) == <<folder, f>>
FileOf(p) == p[2]
\* Path.resolve(): the absolute location, whatever the spelling.
Resolve(p) == <<"/abs/docs", p[2]>>

\* Mutant: the scan is sorted with reverse=True.
RECURSIVE SortedPathsDesc(_, _)
SortedPathsDesc(folder, S) ==
    IF S = {} THEN <<>>
    ELSE LET f == CHOOSE x \in S : \A y \in S : x >= y
         IN <<<<folder, f>>>> \o SortedPathsDesc(folder, S \ {f})

\* sorted(folder_path.glob("*.pdf")): ascending by path.
RECURSIVE SortedPaths(_, _)
SortedPaths(folder, S) ==
    IF S = {} THEN <<>>
    ELSE LET f == CHOOSE x \in S : \A y \in S : x <= y
         IN <<PathOf(folder, f)>> \o SortedPaths(folder, S \ {f})

(***************************************************************************)
(* The documents.  Recognition is an external capability: what it returns  *)
(* for a file is a function of the file's content, which changes with its  *)
(* modification time, and of the strategy.                                 *)
(***************************************************************************)
\* doc.page_count of file f.
PageCountOf(f) == f
\* len() of the recognized text: file 1 is a document longer than the cap.
TextLenOf(f) == IF f = 1 THEN TEXT_CAP + 1 ELSE 10 * f
\* The text both strategies build (lines 359-368, 392-398) for the content
\* the file has at modification time m.
RecognizedText(f, m, ocrmypdf) ==
    [doc |-> f, ver |-> m, by |-> IF ocrmypdf THEN "ocrmypdf" ELSE "pytesseract",
     len |-> TextLenOf(f)]

\* Mutant: the text is stored whole.
TruncateOff(text) == text

\* text[:500_000]
Truncate(text) == [text EXCEPT !.len = Min(text.len, TEXT_CAP)]

(***************************************************************************)
(* Recognition cache (lines 450-487).                                      *)
(***************************************************************************)
\* _cache_key: sha1 of "<resolved path>::<mtime_ns>"; the digest is modelled
\* by the pair it is computed from.
CacheKey(p, fs) == <<Resolve(p), fs[FileOf(p)]>>

CacheKeys == {<<Resolve(PathOf(FOLDER, f)), m>> : f \in Files, m \in Times}

\* Mutant: every lookup is a miss.
LoadCacheMiss(c, p, fs) == None

\* What a cache file may hold besides a payload StoreCache wrote: a cut-off
\* document, a JSON array, an object whose page_count is not a number, and
\* the object {}.
DamageKinds == {"truncated", "array", "page_count", "empty_object"}

\* The str "" in the form texts have here.
EmptyText == [doc |-> 0, ver |-> 0, by |-> "", len |-> 0]

\* _load_cache (lines 457-466): None when the file is absent or when reading
\* it raises (json.load, payload.get on a non-dict, int() of the page count);
\* else (payload.get("text", ""), int(payload.get("page_count", 0))).
LoadCache(c, p, fs) ==
    LET payload == c[CacheKey(p, fs)]
    IN IF payload = None THEN None
       ELSE IF "damage" \in DOMAIN payload
       THEN IF payload.damage = "empty_object"
            THEN [text |-> EmptyText, page_count |-> 0]
            ELSE None
       ELSE [text |-> payload.text, page_count |-> payload.page_count]

\* Mutant: the store also clears the entries of the same path under other
\* modification times.
StoreCacheEvict(c, p, fs, text, page_count, language, dpi, use_ocrmypdf) ==
    [k \in DOMAIN c |->
        IF k = CacheKey(p, fs)
        THEN [text |-> text, page_count |-> page_count, lang |-> language,
              dpi |-> dpi, ocrmypdf |-> use_ocrmypdf]
        ELSE IF k[1] = Resolve(p) THEN None ELSE c[k]]

\* _store_cache: writes the payload at the fingerprint's file.
StoreCache(c, p, fs, text, page_count, language, dpi, use_ocrmypdf) ==
    [c EXCEPT ![CacheKey(p, fs)] =
        [text |-> text, page_count |-> page_count, lang |-> language,
         dpi |-> dpi, ocrmypdf |-> use_ocrmypdf]]

(***************************************************************************)
(* ocr_single_pdf (lines 80-111) as a function of the state it reads: the  *)
(* outcome, the cache it leaves and whether a recognition strategy ran.    *)
(***************************************************************************)
\* _ensure_dependencies(require_ocr=True), lines 339-345.
EnsureDependencies(miss) ==
    IF "fitz" \in miss THEN "ImportError"
    ELSE IF "pytesseract" \in miss THEN "ImportError"
    ELSE IF "PIL" \in miss THEN "ImportError"
    ELSE NoExc

Raised(exc, c) == [exc |-> exc, value |-> None, cache |-> c, backend |-> FALSE]

\* Lines 103-106: the selected strategy on a cache miss.
Recognize(p, fs, rd, miss, c, use_ocrmypdf) ==
    IF use_ocrmypdf /\ "ocrmypdf" \in miss
    THEN Raised("ImportError", c)
    ELSE IF ~rd[FileOf(p)]
    THEN [exc |-> "RuntimeError", value |-> None, cache |-> c, backend |-> TRUE]
    ELSE [exc |-> NoExc,
          value |-> [text |-> RecognizedText(FileOf(p), fs[FileOf(p)], use_ocrmypdf),
                     page_count |-> PageCountOf(FileOf(p))],
          cache |-> c, backend |-> TRUE]

OcrSinglePdf(p, fs, rd, miss, c, language, dpi, use_cache, use_ocrmypdf) ==
    IF EnsureDependencies(miss) # NoExc THEN Raised(EnsureDependencies(miss), c)
    ELSE LET cache_entry == IF use_cache THEN LoadCache(c, p, fs) ELSE None
         IN IF cache_entry # None
            THEN [exc |-> NoExc, value |-> cache_entry, cache |-> c, backend |-> FALSE]
            ELSE LET r == Recognize(p, fs, rd, miss, c, use_ocrmypdf)
                 IN IF r.exc # NoExc \/ ~use_cache THEN r
                    ELSE [r EXCEPT !.cache =
                            StoreCache(c, p, fs, r.value.text, r.value.page_count,
                                       language, dpi, use_ocrmypdf)]

(***************************************************************************)
(* Document index (lines 113-162, 312-327, 407-413).                       *)
(***************************************************************************)
\* SELECT ... WHERE file_path = ?  (fetchone): the row, or None.
GetIndexRecord(rows, p) ==
    IF \E k \in 1..Len(rows) : rows[k].file_path = p
    THEN rows[CHOOSE k \in 1..Len(rows) : rows[k].file_path = p]
    ELSE None

\* INTEGER PRIMARY KEY AUTOINCREMENT: one more than the largest rowid used.
NextId(rows) == Len(rows) + 1

\* Mutant: INSERT OR REPLACE, which deletes the old row and inserts a new one.
UpsertReplace(rows, p, text, page_count, created_at, modified_ns, language) ==
    LET keep == SelectSeq(rows, LAMBDA r : r.file_path # p)
    IN Append(keep, [id |-> Len(rows) + 1, file_path |-> p,
                     text_content |-> Truncate(text), page_count |-> page_count,
                     created_at |-> created_at, file_modified_at |-> modified_ns,
                     lang |-> language])

\* Mutant: a plain INSERT into a table without the UNIQUE constraint.
UpsertAppend(rows, p, text, page_count, created_at, modified_ns, language) ==
    Append(rows, [id |-> Len(rows) + 1, file_path |-> p,
                  text_content |-> Truncate(text), page_count |-> page_count,
                  created_at |-> created_at, file_modified_at |-> modified_ns,
                  lang |-> language])

\* INSERT ... ON CONFLICT(file_path) DO UPDATE SET ... (lines 137-159).
Upsert(rows, p, text, page_count, created_at, modified_ns, language) ==
    IF \E k \in 1..Len(rows) : rows[k].file_path = p
    THEN [k \in 1..Len(rows) |->
            IF rows[k].file_path = p
            THEN [rows[k] EXCEPT !.text_content = Truncate(text),
                                 !.page_count = page_count,
                                 !.created_at = created_at,
                                 !.file_modified_at = modified_ns,
                                 !.lang = language]
            ELSE rows[k]]
    ELSE Append(rows, [id |-> NextId(rows), file_path |-> p,
                       text_content |-> Truncate(text), page_count |-> page_count,
                       created_at |-> created_at, file_modified_at |-> modified_ns,
                       lang |-> language])

\* index_pdf: the action it reports (line 135).
UpsertAction(rows, p) ==
    IF GetIndexRecord(rows, p) # None THEN "updated" ELSE "inserted"

\* existing["file_modified_at"] or 0 (line 418): None and 0 give 0.
StoredNs(existing) ==
    IF existing.file_modified_at = NULL THEN 0 ELSE existing.file_modified_at

\* An integer above every modification time: int(1e30).
Beyond == MaxTime + 1

\* int(stored_ns) (line 420): the integer, the float cut to an integer, or
\* the exception int() raises.
IntValue(v) ==
    CASE v = TEXT_ABC -> [exc |-> "ValueError", value |-> 0]
      [] v = REAL_INF -> [exc |-> "OverflowError", value |-> 0]
      [] v = REAL_1E30 -> [exc |-> NoExc, value |-> Beyond]
      [] OTHER -> [exc |-> NoExc, value |-> v]

\* Lines 419-422: TypeError and ValueError are caught, whatever else int()
\* raises leaves _needs_reindex.
NeedsReindexExc(existing) ==
    IF existing = None THEN NoExc
    ELSE IF IntValue(StoredNs(existing)).exc \in {"TypeError", "ValueError"}
    THEN NoExc
    ELSE IntValue(StoredNs(existing)).exc

\* Mutant: "changed" instead of "newer" (!= for >).
NeedsReindexNe(p, existing, fs) ==
    IF existing = None THEN TRUE
    ELSE fs[p[2]] # (IF existing.file_modified_at = NULL
                     THEN 0 ELSE existing.file_modified_at)

\* Mutant: the stored modification time is not consulted.
NeedsReindexAlways(p, existing, fs) == TRUE

\* _needs_reindex (lines 415-424).
NeedsReindex(p, existing, fs) ==
    IF existing = None THEN TRUE
    ELSE LET modified_ns == fs[FileOf(p)]
             stored_ns == StoredNs(existing)
         IN IF IntValue(stored_ns).exc # NoExc THEN TRUE
            ELSE modified_ns > IntValue(stored_ns).value

(***************************************************************************)
(* State after PDFOCRExtractor() on a fresh db_path and cache_dir.         *)
(***************************************************************************)
\* language = lang or self.DEFAULT_LANG; "" stands for None and for "".
Language(lang) == IF lang = "" THEN DEFAULT_LANG ELSE lang

NoRun == [force |-> FALSE, use_cache |-> FALSE, use_ocrmypdf |-> FALSE,
          lang |-> "", dpi |-> DEFAULT_DPI, sink |-> {}, pdf_files |-> <<>>, i |-> 0]
NoStats == [total |-> 0, indexed |-> 0, skipped |-> 0, updated |-> 0,
            errors |-> <<>>]

\* The installations the extractor runs in: ocrmypdf is an optional extra.
Installs == {{"ocrmypdf"}, {"ocrmypdf", "pytesseract"}}

Init ==
    /\ mtime = [f \in Files |-> 1]
    /\ readable \in {rd \in [Files -> BOOLEAN] :
                        Cardinality({f \in Files : ~rd[f]}) <= 1}
    /\ missing \in Installs
    /\ scratch = {}
    /\ log = NoLog
    /\ cache = [k \in CacheKeys |-> None]
    /\ index = <<>>
    /\ now = 0
    /\ gui = NoGui
    /\ job = NoJob
    /\ pc = "idle"
    /\ run = NoRun
    /\ stats = NoStats
    /\ events = <<>>
    /\ tmp = None
    /\ ret = None
    /\ seen = [f \in Files |-> None]
    /\ base = <<>>
    /\ since = [f \in Files |-> "new"]
    /\ upserted = {}

(***************************************************************************)
(* The environment: another program rewrites a file, which gives it a new  *)
(* modification time (later, or earlier when an older copy is restored).   *)
(***************************************************************************)
\* since[f]: "new" no batch call has handled f yet; "same" unchanged since the
\* last batch call; "up" only raised since then; "mixed" once it was lowered,
\* or a batch call failed on it.
Moved(was, up) ==
    IF was = "mixed" \/ ~up THEN "mixed"
    ELSE IF was = "new" THEN "new"
    ELSE "up"

Modify(f, m) ==
    /\ pc = "idle"
    /\ m # mtime[f]
    /\ mtime' = [mtime EXCEPT ![f] = m]
    /\ seen' = [seen EXCEPT ![f] = None]
    /\ since' = [since EXCEPT ![f] = Moved(since[f], m > mtime[f])]
    /\ UNCHANGED <<readable, missing, scratch, log, cache, index, now, gui, job, pc, batchVars,
                   ret, upserted>>

(***************************************************************************)
(* A direct ocr_single_pdf call by the application.                        *)
(***************************************************************************)
CallOcrSinglePdf(f, use_cache, use_ocrmypdf) ==
    /\ pc = "idle"
    /\ LET p == PathOf(FOLDER, f)
           r == IF f \notin DOMAIN mtime
                THEN Raised("FileNotFoundError", cache)
                ELSE OcrSinglePdf(p, mtime, readable, missing, cache,
                                  DEFAULT_LANG, DEFAULT_DPI, use_cache,
                                  use_ocrmypdf)
       IN /\ cache' = r.cache
          /\ ret' = [call |-> "ocr_single_pdf", path |-> p, use_cache |-> use_cache,
                     use_ocrmypdf |-> use_ocrmypdf, exc |-> r.exc,
                     value |-> r.value, backend |-> r.backend]
          /\ seen' = IF use_cache /\ r.exc = NoExc
                     THEN [seen EXCEPT ![f] = r.value] ELSE seen
    /\ pc' = "called"
    /\ UNCHANGED <<fsVars, index, now, gui, job, batchVars, since, upserted>>

\* The caller has taken the value a direct call returned (or its exception).
CallDone ==
    /\ pc = "called"
    /\ pc' = "idle"
    /\ ret' = None
    /\ UNCHANGED <<fsVars, cache, index, now, gui, job, batchVars, histVars>>

(***************************************************************************)
(* batch_ocr_folder (lines 164-239).  The progress sink records what it is *)
(* called with and returns.                                                *)
(***************************************************************************)
Event(i, status) == <<i, stats.total, run.pdf_files[i], status>>

\* Lines 178-197: the scan, the stats dict; lang and dpi at their defaults.
BatchBegin(force, use_cache, use_ocrmypdf) ==
    /\ pc = "idle"
    /\ pc' = "loop"
    /\ run' = [force |-> force, use_cache |-> use_cache,
               use_ocrmypdf |-> use_ocrmypdf, lang |-> "", dpi |-> DEFAULT_DPI,
               sink |-> {},
               pdf_files |-> SortedPaths(FOLDER, DOMAIN mtime), i |-> 0]
    /\ stats' = [NoStats EXCEPT !.total = Len(SortedPaths(FOLDER, DOMAIN mtime))]
    /\ events' = <<>>
    /\ tmp' = None
    /\ base' = index
    /\ UNCHANGED <<fsVars, cache, index, now, gui, job, ret, histVars>>

\* progress_callback(...): run.sink holds the statuses at which the sink the
\* caller passed raises; the sink takes the event, then raises.
SinkRaises(status) == status \in run.sink

\* Lines 198-200: the next file and its start event, outside the try: a sink
\* that raises here ends the call.
BatchStartFile ==
    /\ pc = "loop"
    /\ run.i < Len(run.pdf_files)
    /\ run' = [run EXCEPT !.i = run.i + 1]
    /\ events' = Append(events, Event(run.i + 1, "start"))
    /\ pc' = IF SinkRaises("start") THEN "raised" ELSE "check"
    /\ UNCHANGED <<fsVars, cache, index, now, gui, job, stats, tmp, ret, base, histVars>>

(***************************************************************************)
(* The log (lines 489-495).                                                *)
(***************************************************************************)
\* Lines 492-493: log_path.open("a") and the write; OSError when the file
\* cannot be appended to.
WriteLine(lg) ==
    IF lg.writable THEN [exc |-> NoExc, log |-> [lg EXCEPT !.written = TRUE]]
    ELSE [exc |-> "OSError", log |-> lg]

\* Mutant: the write is not guarded.
LogUnguarded(lg) == WriteLine(lg)

\* _log: except Exception: pass (lines 494-495).
Log(lg) == [WriteLine(lg) EXCEPT !.exc = NoExc]

\* Mutant: the handler records the error and re-raises.
OnErrorReraise(pdf_file) ==
    [stats |-> [stats EXCEPT !.errors = Append(stats.errors, pdf_file)],
     events |-> Append(events, Event(run.i, "error")),
     pc |-> "raised",
     log |-> Log(log).log]

\* Lines 232-236: the per-file handler, entered with the counters st and the
\* events evs the try block has left: the error entry, the log line, the
\* error event; the loop goes on with the next file.  An exception of the
\* log line or of the sink would leave the handler and the call.
Handle(pdf_file, st, evs) ==
    [stats |-> [st EXCEPT !.errors = Append(st.errors, pdf_file)],
     events |-> IF Log(log).exc = NoExc
                THEN Append(evs, Event(run.i, "error")) ELSE evs,
     pc |-> IF Log(log).exc = NoExc /\ ~SinkRaises("error")
            THEN "loop" ELSE "raised",
     log |-> Log(log).log]

\* The handler entered from a statement that raised before any counter or
\* event of the file's outcome.
OnError(pdf_file) == Handle(pdf_file, stats, events)

\* Mutant: force is not consulted in the staleness decision.
BatchCheckNoForce ==
    /\ pc = "check"
    /\ LET pdf_file == run.pdf_files[run.i]
           existing == GetIndexRecord(index, pdf_file)
           needs_ocr == NeedsReindex(pdf_file, existing, mtime)
       IN IF ~needs_ocr
          THEN /\ stats' = [stats EXCEPT !.skipped = stats.skipped + 1]
               /\ events' = Append(events, Event(run.i, "skip"))
               /\ pc' = "loop"
          ELSE /\ pc' = "ocr"
               /\ UNCHANGED <<stats, events>>
    /\ UNCHANGED <<fsVars, cache, index, now, gui, job, run, tmp, ret, base, histVars>>

\* Mutant: the file is recognized before the decision to skip it.
BatchCheckEager ==
    /\ pc = "check"
    /\ LET pdf_file == run.pdf_files[run.i]
           existing == IF run.force THEN None ELSE GetIndexRecord(index, pdf_file)
           needs_ocr == run.force \/ NeedsReindex(pdf_file, existing, mtime)
       IN IF ~needs_ocr
          THEN /\ stats' = [stats EXCEPT !.skipped = stats.skipped + 1]
               /\ events' = Append(events, Event(run.i, "skip"))
               /\ cache' = OcrSinglePdf(pdf_file, mtime, readable, missing, cache,
                                        Language(run.lang), run.dpi, run.use_cache,
                                        run.use_ocrmypdf).cache
               /\ pc' = "loop"
          ELSE /\ pc' = "ocr"
               /\ UNCHANGED <<stats, events, cache>>
    /\ UNCHANGED <<fsVars, index, now, gui, job, run, tmp, ret, base, histVars>>

\* Lines 203-210: the staleness decision, and the skip; the handler when
\* _needs_reindex raises, or when the sink raises at the skip event, which
\* comes after the counter (lines 207-209).
BatchCheck ==
    /\ pc = "check"
    /\ LET pdf_file == run.pdf_files[run.i]
           existing == IF run.force THEN None ELSE GetIndexRecord(index, pdf_file)
           needs_ocr == run.force \/ NeedsReindex(pdf_file, existing, mtime)
       IN IF ~run.force /\ NeedsReindexExc(existing) # NoExc
          THEN /\ stats' = OnError(pdf_file).stats
               /\ events' = OnError(pdf_file).events
               /\ pc' = OnError(pdf_file).pc
               /\ log' = OnError(pdf_file).log
          ELSE IF ~needs_ocr /\ SinkRaises("skip")
          THEN LET h == Handle(pdf_file,
                               [stats EXCEPT !.skipped = stats.skipped + 1],
                               Append(events, Event(run.i, "skip")))
               IN /\ stats' = h.stats
                  /\ events' = h.events
                  /\ pc' = h.pc
                  /\ log' = h.log
          ELSE IF ~needs_ocr
          THEN /\ stats' = [stats EXCEPT !.skipped = stats.skipped + 1]
               /\ events' = Append(events, Event(run.i, "skip"))
               /\ pc' = "loop"
               /\ UNCHANGED log
          ELSE /\ pc' = "ocr"
               /\ UNCHANGED <<stats, events, log>>
    /\ UNCHANGED <<diskVars, cache, index, now, gui, job, run, tmp, ret, base, histVars>>

\* Lines 212-218, and the handler when the call raises.
BatchOcr ==
    /\ pc = "ocr"
    /\ LET pdf_file == run.pdf_files[run.i]
           r == OcrSinglePdf(pdf_file, mtime, readable, missing, cache,
                             Language(run.lang), run.dpi, run.use_cache,
                             run.use_ocrmypdf)
       IN /\ cache' = r.cache
          /\ IF r.exc # NoExc
             THEN /\ stats' = OnError(pdf_file).stats
                  /\ events' = OnError(pdf_file).events
                  /\ pc' = OnError(pdf_file).pc
                  /\ log' = OnError(pdf_file).log
                  /\ tmp' = None
             ELSE /\ tmp' = r.value
                  /\ pc' = "index"
                  /\ UNCHANGED <<stats, events, log>>
    /\ UNCHANGED <<diskVars, index, now, gui, job, run, ret, base, histVars>>

\* Lines 220-228: index_pdf (the upsert, then its log line) and the counters.
\* An exception of the log line would reach the handler after the commit.
BatchIndex ==
    /\ pc = "index"
    /\ LET pdf_file == run.pdf_files[run.i]
           action == UpsertAction(index, pdf_file)
       IN /\ index' = Upsert(index, pdf_file, tmp.text, tmp.page_count, now,
                             mtime[FileOf(pdf_file)], Language(run.lang))
          /\ upserted' = upserted \cup {pdf_file}
          /\ IF Log(log).exc = NoExc
             THEN /\ stats' = [stats EXCEPT
                                 !.indexed = stats.indexed + 1,
                                 !.updated = IF action = "updated"
                                             THEN stats.updated + 1
                                             ELSE stats.updated]
                  /\ log' = Log(log).log
                  /\ pc' = "emit"
                  /\ UNCHANGED events
             ELSE /\ stats' = OnError(pdf_file).stats
                  /\ events' = OnError(pdf_file).events
                  /\ pc' = OnError(pdf_file).pc
                  /\ log' = OnError(pdf_file).log
    /\ tmp' = None
    /\ UNCHANGED <<diskVars, cache, now, gui, job, run, ret, base, seen, since>>

\* Lines 230-231: the success event, inside the try and after the counters;
\* the handler when the sink raises at it.
BatchSuccess ==
    /\ pc = "emit"
    /\ IF SinkRaises("success")
       THEN LET h == Handle(run.pdf_files[run.i], stats,
                            Append(events, Event(run.i, "success")))
            IN /\ stats' = h.stats
               /\ events' = h.events
               /\ pc' = h.pc
               /\ log' = h.log
       ELSE /\ events' = Append(events, Event(run.i, "success"))
            /\ pc' = "loop"
            /\ UNCHANGED <<stats, log>>
    /\ UNCHANGED <<diskVars, cache, index, now, gui, job, run, tmp, ret, base, histVars>>

\* Lines 238-239: the loop is exhausted, the call returns stats.
BatchReturn ==
    /\ pc = "loop"
    /\ run.i = Len(run.pdf_files)
    /\ pc' = "returned"
    /\ ret' = [call |-> "batch_ocr_folder", exc |-> NoExc, value |-> stats]
    /\ UNCHANGED <<fsVars, cache, index, now, gui, job, batchVars, histVars>>

\* The caller has read the result: the call's locals are gone.
BatchDone ==
    /\ pc = "returned"
    /\ pc' = "idle"
    /\ run' = NoRun
    /\ stats' = NoStats
    /\ events' = <<>>
    /\ base' = <<>>
    /\ ret' = None
    /\ since' = [f \in Files |->
                   IF since[f] = "mixed"
                      \/ \E k \in 1..Len(stats.errors) : FileOf(stats.errors[k]) = f
                   THEN "mixed" ELSE "same"]
    /\ UNCHANGED <<fsVars, cache, index, now, gui, job, tmp, seen, upserted>>

Next ==
    \/ \E f \in Files, m \in Times : Modify(f, m)
    \/ \E force \in BOOLEAN, uc \in BOOLEAN : BatchBegin(force, uc, FALSE)
    \/ BatchStartFile
    \/ BatchCheck
    \/ BatchOcr
    \/ BatchIndex
    \/ BatchSuccess
    \/ BatchReturn
    \/ BatchDone

Spec == Init /\ [][Next]_vars

NextOcr ==
    \/ \E f \in Files, m \in Times : Modify(f, m)
    \/ \E f \in Files, uc \in BOOLEAN, ub \in BOOLEAN : CallOcrSinglePdf(f, uc, ub)
    \/ CallDone

SpecOcr == Init /\ [][NextOcr]_vars

(***************************************************************************)
(* SpecCache: ocr_single_pdf calls over a cache directory whose files may  *)
(* be damaged between the calls.                                           *)
(***************************************************************************)
\* The cache file of f's current fingerprint is overwritten with a document
\* that no _store_cache wrote.
Damage(f, kind) ==
    /\ pc = "idle"
    /\ cache' = [cache EXCEPT ![CacheKey(PathOf(FOLDER, f), mtime)] =
                    [damage |-> kind]]
    /\ seen' = [seen EXCEPT ![f] = None]
    /\ UNCHANGED <<fsVars, index, now, gui, job, pc, batchVars, ret, since, upserted>>

NextCache ==
    \/ \E m \in Times : Modify(1, m)
    \/ \E f \in Files, kind \in DamageKinds : Damage(f, kind)
    \/ \E f \in Files, uc \in BOOLEAN, ub \in BOOLEAN : CallOcrSinglePdf(f, uc, ub)
    \/ CallDone

SpecCache == Init /\ [][NextCache]_vars

(***************************************************************************)
(* SpecHeal: batch_ocr_folder with ocr_single_pdf (lines 96-111) taken     *)
(* statement by statement, and the process stopped from outside between    *)
(* the recognition and the upsert.  The cache files and the database stay. *)
(***************************************************************************)
\* Lines 96-101 inside the batch's try: the dependency check, the cache read.
OcrLoadCache ==
    /\ pc = "ocr"
    /\ LET pdf_file == run.pdf_files[run.i]
           cache_entry == IF run.use_cache THEN LoadCache(cache, pdf_file, mtime)
                          ELSE None
       IN IF EnsureDependencies(missing) # NoExc
          THEN /\ stats' = OnError(pdf_file).stats
               /\ events' = OnError(pdf_file).events
               /\ pc' = OnError(pdf_file).pc
               /\ log' = OnError(pdf_file).log
               /\ tmp' = None
          ELSE IF cache_entry # None
          THEN /\ tmp' = [text |-> cache_entry.text,
                          page_count |-> cache_entry.page_count,
                          backend |-> FALSE]
               /\ pc' = "index"
               /\ UNCHANGED <<stats, events, log>>
          ELSE /\ pc' = "recognize"
               /\ UNCHANGED <<stats, events, tmp, log>>
    /\ UNCHANGED <<diskVars, cache, index, now, gui, job, run, ret, base, histVars>>

\* Mutant: the result is returned without being stored.
AfterRecognizeNoStore(use_cache) == "index"

\* Line 108: if use_cache, the store follows the recognition.
AfterRecognize(use_cache) == IF use_cache THEN "store" ELSE "index"

\* Lines 103-106: the strategy runs.
OcrRecognize ==
    /\ pc = "recognize"
    /\ LET pdf_file == run.pdf_files[run.i]
           r == Recognize(pdf_file, mtime, readable, missing, cache,
                          run.use_ocrmypdf)
       IN IF r.exc # NoExc
          THEN /\ stats' = OnError(pdf_file).stats
               /\ events' = OnError(pdf_file).events
               /\ pc' = OnError(pdf_file).pc
               /\ log' = OnError(pdf_file).log
               /\ tmp' = None
          ELSE /\ tmp' = [text |-> r.value.text,
                          page_count |-> r.value.page_count, backend |-> TRUE]
               /\ pc' = AfterRecognize(run.use_cache)
               /\ UNCHANGED <<stats, events, log>>
    /\ UNCHANGED <<diskVars, cache, index, now, gui, job, run, ret, base, histVars>>

\* Lines 108-111: _store_cache, and the value is returned to the batch.
OcrStoreCache ==
    /\ pc = "store"
    /\ cache' = StoreCache(cache, run.pdf_files[run.i], mtime, tmp.text,
                           tmp.page_count, Language(run.lang), run.dpi,
                           run.use_ocrmypdf)
    /\ pc' = "index"
    /\ UNCHANGED <<fsVars, index, now, gui, job, run, stats, events, tmp, ret, base,
                   histVars>>

\* The process ends between the recognition and the upsert of the file in
\* hand (killed, power loss): the call's locals are gone, nothing is returned.
\* since: "stopped" for a file whose result this call had recognized and
\* stored in the cache, and as BatchDone sets it for the files the loop had
\* finished.
Stop ==
    /\ pc \in {"store", "index"}
    /\ pc' = "idle"
    /\ run' = NoRun
    /\ stats' = NoStats
    /\ events' = <<>>
    /\ base' = <<>>
    /\ tmp' = None
    /\ since' = [f \in Files |->
                   IF PathOf(FOLDER, f) = run.pdf_files[run.i]
                   THEN IF pc = "index" /\ run.use_cache /\ tmp.backend
                        THEN "stopped" ELSE "mixed"
                   ELSE IF \E k \in 1..(run.i - 1) : run.pdf_files[k] = PathOf(FOLDER, f)
                   THEN IF since[f] = "mixed"
                           \/ \E k \in 1..Len(stats.errors) :
                                 FileOf(stats.errors[k]) = f
                        THEN "mixed" ELSE "same"
                   ELSE since[f]]
    /\ UNCHANGED <<fsVars, cache, index, now, gui, job, ret, seen, upserted>>

InitHeal ==
    /\ Init
    /\ missing = {"ocrmypdf"}

NextHeal ==
    \/ \E f \in Files, m \in Times : Modify(f, m)
    \/ \E force \in BOOLEAN, uc \in BOOLEAN : BatchBegin(force, uc, FALSE)
    \/ BatchStartFile
    \/ BatchCheck
    \/ OcrLoadCache
    \/ OcrRecognize
    \/ OcrStoreCache
    \/ BatchIndex
    \/ BatchSuccess
    \/ BatchReturn
    \/ BatchDone
    \/ Stop

SpecHeal == InitHeal /\ [][NextHeal]_vars

(***************************************************************************)
(* SpecRace: the batch of SpecHeal with another process rewriting the file *)
(* in hand while ocr_single_pdf or index_pdf is at work on it: after the   *)
(* strategy has read the file (lines 103-106) and before _store_cache      *)
(* (line 109, whose _cache_key takes path.stat() anew, line 451) or before *)
(* index_pdf's path.stat() (line 125).                                     *)
(***************************************************************************)
ModifyDuring(m) ==
    /\ pc \in {"store", "index"}
    /\ LET f == FileOf(run.pdf_files[run.i])
       IN /\ m # mtime[f]
          /\ mtime' = [mtime EXCEPT ![f] = m]
          /\ seen' = [seen EXCEPT ![f] = None]
          /\ since' = [since EXCEPT ![f] = "mixed"]
    /\ UNCHANGED <<readable, missing, scratch, log, cache, index, now, gui, job, pc, batchVars,
                   ret, upserted>>

NextRace ==
    \/ \E m \in Times : Modify(1, m)
    \/ \E m \in Times : ModifyDuring(m)
    \/ \E force \in BOOLEAN, uc \in BOOLEAN : BatchBegin(force, uc, FALSE)
    \/ BatchStartFile
    \/ BatchCheck
    \/ OcrLoadCache
    \/ OcrRecognize
    \/ OcrStoreCache
    \/ BatchIndex
    \/ BatchSuccess
    \/ BatchReturn
    \/ BatchDone

SpecRace == InitHeal /\ [][NextRace]_vars

(***************************************************************************)
(* SpecCrash: the batch with index_pdf's transaction (lines 127-158) taken *)
(* in its two steps, the statement and the commit at the end of the with   *)
(* block, and the process interrupted at any point of the run.             *)
(***************************************************************************)
\* Lines 127-158: inside the connection's transaction, the SELECT and the
\* INSERT ... ON CONFLICT; pending is the table as the connection sees it.
BatchExecute ==
    /\ pc = "index"
    /\ LET pdf_file == run.pdf_files[run.i]
       IN tmp' = [text |-> tmp.text, page_count |-> tmp.page_count,
                  action |-> UpsertAction(index, pdf_file),
                  pending |-> Upsert(index, pdf_file, tmp.text, tmp.page_count,
                                     now, mtime[FileOf(pdf_file)],
                                     Language(run.lang))]
    /\ pc' = "commit"
    /\ UNCHANGED <<fsVars, cache, index, now, gui, job, run, stats, events, ret, base,
                   histVars>>

\* The end of the with block (line 159): the transaction commits; then the
\* log line (line 161) and the counters (lines 226-228).
BatchCommit ==
    /\ pc = "commit"
    /\ LET pdf_file == run.pdf_files[run.i]
       IN /\ index' = tmp.pending
          /\ upserted' = upserted \cup {pdf_file}
          /\ IF Log(log).exc = NoExc
             THEN /\ stats' = [stats EXCEPT
                                 !.indexed = stats.indexed + 1,
                                 !.updated = IF tmp.action = "updated"
                                             THEN stats.updated + 1
                                             ELSE stats.updated]
                  /\ log' = Log(log).log
                  /\ pc' = "emit"
                  /\ UNCHANGED events
             ELSE /\ stats' = OnError(pdf_file).stats
                  /\ events' = OnError(pdf_file).events
                  /\ pc' = OnError(pdf_file).pc
                  /\ log' = OnError(pdf_file).log
    /\ tmp' = None
    /\ UNCHANGED <<diskVars, cache, now, gui, job, run, events, ret, base, seen, since>>

\* Mutant: the statement's writes reach the table one column at a time and
\* stay after the interruption.
RollbackTorn(committed, pending) ==
    [k \in 1..Len(pending) |->
        IF k <= Len(committed) /\ pending[k] = committed[k]
        THEN pending[k]
        ELSE [pending[k] EXCEPT !.file_modified_at = NULL]]

\* A transaction that did not commit: the connection's __exit__ rolls back
\* on an exception, and SQLite's journal undoes the writes of a process that
\* died (line 127).
Rollback(committed, pending) == committed

BatchPcs == {"loop", "check", "ocr", "index", "commit", "emit"}

\* The run is interrupted (KeyboardInterrupt, kill, power loss) at any point:
\* nothing is returned.  run, stats and base stay as the record of how far
\* the run had come, for the invariants to read.
Interrupt ==
    /\ pc \in BatchPcs
    /\ index' = IF pc = "commit" THEN Rollback(index, tmp.pending) ELSE index
    /\ pc' = IF pc = "commit" THEN "rolledback" ELSE "interrupted"
    /\ tmp' = None
    /\ since' = [f \in Files |-> "mixed"]
    /\ UNCHANGED <<fsVars, cache, now, gui, job, run, stats, events, ret, base, seen,
                   upserted>>

\* The next process: a new extractor on the same database.
Restart ==
    /\ pc \in {"interrupted", "rolledback"}
    /\ pc' = "idle"
    /\ run' = NoRun
    /\ stats' = NoStats
    /\ events' = <<>>
    /\ base' = <<>>
    /\ UNCHANGED <<fsVars, cache, index, now, gui, job, tmp, ret, histVars>>

NextCrash ==
    \/ \E f \in Files, m \in Times : Modify(f, m)
    \/ \E force \in BOOLEAN : BatchBegin(force, FALSE, FALSE)
    \/ BatchStartFile
    \/ BatchCheck
    \/ BatchOcr
    \/ BatchExecute
    \/ BatchCommit
    \/ BatchSuccess
    \/ BatchReturn
    \/ BatchDone
    \/ Interrupt
    \/ Restart

SpecCrash == InitHeal /\ [][NextCrash]_vars

(***************************************************************************)
(* SpecMalformed: the batch over an index whose rows another program (or   *)
(* an earlier release) wrote: the stored modification time is NULL, an     *)
(* integer, or a value that is not an integer.                             *)
(***************************************************************************)
StoredValues == {NULL, 1, TEXT_ABC, REAL_1E30, REAL_INF}

StoredRow(f, v) ==
    [id |-> f, file_path |-> PathOf(FOLDER, f),
     text_content |-> Truncate(RecognizedText(f, 1, FALSE)),
     page_count |-> PageCountOf(f), created_at |-> 0,
     file_modified_at |-> v, lang |-> DEFAULT_LANG]

InitMalformed ==
    /\ mtime = [f \in Files |-> 1]
    /\ readable = [f \in Files |-> TRUE]
    /\ missing = {"ocrmypdf"}
    /\ scratch = {}
    /\ log = NoLog
    /\ cache = [k \in CacheKeys |-> None]
    /\ \E v \in [Files -> StoredValues] :
          index = [f \in 1..NumFiles |-> StoredRow(f, v[f])]
    /\ now = 0
    /\ gui = NoGui
    /\ job = NoJob
    /\ pc = "idle"
    /\ run = NoRun
    /\ stats = NoStats
    /\ events = <<>>
    /\ tmp = None
    /\ ret = None
    /\ seen = [f \in Files |-> None]
    /\ base = <<>>
    /\ since = [f \in Files |-> "new"]
    /\ upserted = {}

NextMalformed ==
    \/ \E m \in Times : Modify(1, m)
    \/ \E force \in BOOLEAN : BatchBegin(force, FALSE, FALSE)
    \/ BatchStartFile
    \/ BatchCheck
    \/ BatchOcr
    \/ BatchIndex
    \/ BatchSuccess
    \/ BatchReturn
    \/ BatchDone

SpecMalformed == InitMalformed /\ [][NextMalformed]_vars

(***************************************************************************)
(* SpecScratch: _ocr_via_ocrmypdf (lines 372-405) statement by statement,  *)
(* on an installation where ocrmypdf may be present.                       *)
(***************************************************************************)
\* tempfile.NamedTemporaryFile(suffix=".pdf", delete=False): a name not in use.
NewScratch(S) == CHOOSE n \in 1..(Cardinality(S) + 1) : n \notin S

NoFrame(p) == [path |-> p, tmp_path |-> 0, exc |-> NoExc, value |-> None, at |-> "begin"]

\* Lines 373-378: the import check, then the scratch file is created.
OcrmypdfBegin(f) ==
    /\ pc = "idle"
    /\ IF "ocrmypdf" \in missing
       THEN /\ pc' = "called"
            /\ ret' = [call |-> "_ocr_via_ocrmypdf", path |-> PathOf(FOLDER, f),
                       exc |-> "ImportError", value |-> None, tmp_path |-> 0,
                       at |-> "import"]
            /\ UNCHANGED <<scratch, tmp>>
       ELSE /\ pc' = "produce"
            /\ scratch' = scratch \cup {NewScratch(scratch)}
            /\ tmp' = [NoFrame(PathOf(FOLDER, f)) EXCEPT
                         !.tmp_path = NewScratch(scratch)]
            /\ UNCHANGED ret
    /\ UNCHANGED <<mtime, readable, missing, log, cache, index, now, gui, job, run, stats,
                   events, base, histVars>>

\* Lines 381-388: ocrmypdf.ocr writes the scratch file, or raises; it raises
\* on a file it cannot read.
OcrmypdfProduce(ok) ==
    /\ pc = "produce"
    /\ ok => readable[FileOf(tmp.path)]
    /\ IF ok THEN pc' = "open" /\ tmp' = [tmp EXCEPT !.at = "produce"]
       ELSE pc' = "finally" /\ tmp' = [tmp EXCEPT !.exc = "ExitCodeException",
                                                  !.at = "produce"]
    /\ UNCHANGED <<fsVars, cache, index, now, gui, job, run, stats, events, ret, base,
                   histVars>>

\* Line 390: fitz.open(tmp_path).
OcrmypdfOpen(ok) ==
    /\ pc = "open"
    /\ IF ok THEN pc' = "read" /\ tmp' = [tmp EXCEPT !.at = "open"]
       ELSE pc' = "finally" /\ tmp' = [tmp EXCEPT !.exc = "FileDataError",
                                                  !.at = "open"]
    /\ UNCHANGED <<fsVars, cache, index, now, gui, job, run, stats, events, ret, base,
                   histVars>>

\* Lines 391-401: the pages are read and joined, then doc.close().
OcrmypdfRead(ok) ==
    /\ pc = "read"
    /\ pc' = "finally"
    /\ tmp' = IF ok
              THEN [tmp EXCEPT !.at = "read", !.value =
                      [text |-> RecognizedText(FileOf(tmp.path),
                                               mtime[FileOf(tmp.path)], TRUE),
                       page_count |-> PageCountOf(FileOf(tmp.path))]]
              ELSE [tmp EXCEPT !.at = "read", !.exc = "RuntimeError"]
    /\ UNCHANGED <<fsVars, cache, index, now, gui, job, run, stats, events, ret, base,
                   histVars>>

\* Mutant: the unlink follows the return statement's try block without a
\* finally, so it runs only when nothing was raised.
OcrmypdfFinallyOnSuccess ==
    /\ pc = "finally"
    /\ scratch' = IF tmp.exc = NoExc THEN scratch \ {tmp.tmp_path} ELSE scratch
    /\ pc' = "called"
    /\ ret' = [call |-> "_ocr_via_ocrmypdf", path |-> tmp.path, exc |-> tmp.exc,
               value |-> tmp.value, tmp_path |-> tmp.tmp_path, at |-> tmp.at]
    /\ tmp' = None
    /\ UNCHANGED <<mtime, readable, missing, log, cache, index, now, gui, job, run, stats,
                   events, base, histVars>>

\* Lines 401-405: tmp_path.unlink(missing_ok=True), then the return or the
\* exception reaches the caller.
OcrmypdfFinally ==
    /\ pc = "finally"
    /\ scratch' = scratch \ {tmp.tmp_path}
    /\ pc' = "called"
    /\ ret' = [call |-> "_ocr_via_ocrmypdf", path |-> tmp.path, exc |-> tmp.exc,
               value |-> tmp.value, tmp_path |-> tmp.tmp_path, at |-> tmp.at]
    /\ tmp' = None
    /\ UNCHANGED <<mtime, readable, missing, log, cache, index, now, gui, job, run, stats,
                   events, base, histVars>>

InitScratch ==
    /\ mtime = [f \in Files |-> 1]
    /\ readable \in {r \in [Files -> BOOLEAN] :
                        Cardinality({f \in Files : ~r[f]}) <= 1}
    /\ missing \in {{}, {"ocrmypdf"}}
    /\ scratch = {}
    /\ log = NoLog
    /\ cache = [k \in CacheKeys |-> None]
    /\ index = <<>>
    /\ now = 0
    /\ gui = NoGui
    /\ job = NoJob
    /\ pc = "idle"
    /\ run = NoRun /\ stats = NoStats /\ events = <<>> /\ tmp = None /\ base = <<>>
    /\ ret = None
    /\ seen = [f \in Files |-> None]
    /\ since = [f \in Files |-> "new"]
    /\ upserted = {}

NextScratch ==
    \/ \E f \in Files, m \in Times : Modify(f, m)
    \/ \E f \in Files : OcrmypdfBegin(f)
    \/ \E ok \in BOOLEAN : OcrmypdfProduce(ok)
    \/ \E ok \in BOOLEAN : OcrmypdfOpen(ok)
    \/ \E ok \in BOOLEAN : OcrmypdfRead(ok)
    \/ OcrmypdfFinally
    \/ CallDone

SpecScratch == InitScratch /\ [][NextScratch]_vars

(***************************************************************************)
(* index_pdf called directly (SpecIndex).  File 0 does not exist.          *)
(***************************************************************************)
\* str(Path(pdf_path)): pathlib drops a leading "./".
PathStr(arg) == <<IF arg[1] = "./docs" THEN FOLDER ELSE arg[1], arg[2]>>

ArgFolders == {FOLDER, "./docs"}
IndexFiles == 0..2

\* path.stat().st_mtime_ns if path.exists() else None (line 125).
ModifiedNs(f, fs) == IF f \in DOMAIN fs THEN fs[f] ELSE NULL

\* The (text, page_count, lang) a caller passes: a short text with the default
\* language, and a text longer than the cap with an explicit language.
IndexArgs ==
    {[text |-> RecognizedText(2, 1, FALSE), page_count |-> 2, lang |-> ""],
     [text |-> RecognizedText(1, 1, FALSE), page_count |-> 1, lang |-> "eng"]}

\* index_pdf (lines 113-162): the upsert, then the log line.
CallIndexPdf(folder, f, a) ==
    /\ pc = "idle"
    /\ LET path == PathStr(<<folder, f>>)
           language == Language(a.lang)
           modified_ns == ModifiedNs(f, mtime)
           created_at == now
       IN /\ index' = Upsert(index, path, a.text, a.page_count, created_at,
                             modified_ns, language)
          /\ ret' = [call |-> "index_pdf", path |-> path, text |-> a.text,
                     page_count |-> a.page_count, lang |-> a.lang,
                     modified_ns |-> modified_ns,
                     before |-> GetIndexRecord(index, path),
                     exc |-> Log(log).exc, action |-> UpsertAction(index, path)]
          /\ upserted' = upserted \cup {path}
    /\ log' = Log(log).log
    /\ pc' = "called"
    /\ UNCHANGED <<diskVars, cache, now, gui, job, batchVars, seen, since>>

\* datetime.now() moves on by a second.
Tick ==
    /\ pc = "idle"
    /\ now < MaxClock
    /\ now' = now + 1
    /\ UNCHANGED <<fsVars, cache, index, pc, batchVars, ret, histVars, gui, job>>

\* Mutant: the export leaves out the records whose file is gone.
ExportRowsExisting(rows) ==
    LET kept == SelectSeq(rows, LAMBDA r : r.file_modified_at # NULL)
    IN [k \in 1..Len(kept) |->
          [file_path |-> kept[k].file_path, text_content |-> kept[k].text_content,
           page_count |-> kept[k].page_count, created_at |-> kept[k].created_at,
           lang |-> kept[k].lang]]

\* export_index lines 296-302: SELECT file_path, text_content, page_count,
\* created_at, lang FROM pdf_index, each row as a dict.
ExportRows(rows) ==
    [k \in 1..Len(rows) |->
        [file_path |-> rows[k].file_path, text_content |-> rows[k].text_content,
         page_count |-> rows[k].page_count, created_at |-> rows[k].created_at,
         lang |-> rows[k].lang]]

\* json.dump (lines 303-304): a list of objects, an object being its members
\* as (name, value) pairs in column order.
JsonDump(payload) ==
    [k \in 1..Len(payload) |->
        << <<"file_path", payload[k].file_path>>,
           <<"text_content", payload[k].text_content>>,
           <<"page_count", payload[k].page_count>>,
           <<"created_at", payload[k].created_at>>,
           <<"lang", payload[k].lang>> >>]

\* json.load of such a document: each object as a dict, a name's value being
\* that of its last member of that name.
Member(obj, name) ==
    obj[CHOOSE i \in 1..Len(obj) :
          /\ obj[i][1] = name
          /\ \A j \in (i + 1)..Len(obj) : obj[j][1] # name][2]

JsonLoad(doc) ==
    [k \in 1..Len(doc) |->
        [file_path |-> Member(doc[k], "file_path"),
         text_content |-> Member(doc[k], "text_content"),
         page_count |-> Member(doc[k], "page_count"),
         created_at |-> Member(doc[k], "created_at"),
         lang |-> Member(doc[k], "lang")]]

\* export_index (lines 290-307): the file, then the log line; ret keeps the
\* file it wrote.
CallExportIndex ==
    /\ pc = "idle"
    /\ ret' = [call |-> "export_index", exc |-> Log(log).exc,
               file |-> JsonDump(ExportRows(index))]
    /\ log' = Log(log).log
    /\ pc' = "called"
    /\ UNCHANGED <<diskVars, cache, index, now, gui, job, batchVars, histVars>>

NextIndex ==
    \/ \E m \in Times : Modify(1, m)
    \/ Tick
    \/ \E folder \in ArgFolders, f \in IndexFiles, a \in IndexArgs :
          CallIndexPdf(folder, f, a)
    \/ CallExportIndex
    \/ CallDone

SpecIndex == Init /\ [][NextIndex]_vars

(***************************************************************************)
(* The operations that write a log line, with a log file that takes the    *)
(* line and with one that cannot be appended to.                           *)
(***************************************************************************)
LogFiles == {NoLog, [NoLog EXCEPT !.writable = FALSE]}

InitLog ==
    /\ mtime = [f \in Files |-> 1]
    /\ readable \in {rd \in [Files -> BOOLEAN] :
                        Cardinality({f \in Files : ~rd[f]}) <= 1}
    /\ missing = {"ocrmypdf"}
    /\ scratch = {}
    /\ log \in LogFiles
    /\ cache = [k \in CacheKeys |-> None]
    /\ index = <<>>
    /\ now = 0
    /\ gui = NoGui
    /\ job = NoJob
    /\ pc = "idle"
    /\ run = NoRun
    /\ stats = NoStats
    /\ events = <<>>
    /\ tmp = None
    /\ ret = None
    /\ seen = [f \in Files |-> None]
    /\ base = <<>>
    /\ since = [f \in Files |-> "new"]
    /\ upserted = {}

NextLog ==
    \/ \E m \in Times : Modify(1, m)
    \/ \E force \in BOOLEAN : BatchBegin(force, TRUE, FALSE)
    \/ BatchStartFile
    \/ BatchCheck
    \/ BatchOcr
    \/ BatchIndex
    \/ BatchSuccess
    \/ BatchReturn
    \/ BatchDone
    \/ \E f \in {0, 2}, a \in IndexArgs : CallIndexPdf(FOLDER, f, a)
    \/ CallExportIndex
    \/ CallDone

SpecLog == InitLog /\ [][NextLog]_vars

(***************************************************************************)
(* SpecSpell: one folder named in several spellings, by the callers of     *)
(* index_pdf and of batch_ocr_folder.  The cache key is taken from the     *)
(* resolved path (line 451), the index key from str(path) (lines 131, 149, *)
(* 412).                                                                   *)
(***************************************************************************)
SpellFolders == {FOLDER, "./docs", "/abs/docs"}

\* Lines 178-197 with the folder argument: folder_path.glob gives the paths
\* under the folder as it was spelled.
BatchBeginIn(folder, force, use_cache, use_ocrmypdf) ==
    /\ pc = "idle"
    /\ pc' = "loop"
    /\ run' = [force |-> force, use_cache |-> use_cache,
               use_ocrmypdf |-> use_ocrmypdf, lang |-> "", dpi |-> DEFAULT_DPI,
               sink |-> {},
               pdf_files |-> SortedPaths(PathStr(<<folder, 0>>)[1], DOMAIN mtime),
               i |-> 0]
    /\ stats' = [NoStats EXCEPT !.total = Cardinality(DOMAIN mtime)]
    /\ events' = <<>>
    /\ tmp' = None
    /\ base' = index
    /\ UNCHANGED <<fsVars, cache, index, now, gui, job, ret, histVars>>

NextSpell ==
    \/ \E m \in Times : Modify(1, m)
    \/ \E folder \in SpellFolders, force \in BOOLEAN :
          BatchBeginIn(folder, force, TRUE, FALSE)
    \/ BatchStartFile
    \/ BatchCheck
    \/ BatchOcr
    \/ BatchIndex
    \/ BatchSuccess
    \/ BatchReturn
    \/ BatchDone
    \/ \E folder \in SpellFolders, a \in IndexArgs : CallIndexPdf(folder, 1, a)
    \/ CallDone

InitSpell ==
    /\ Init
    /\ missing = {"ocrmypdf"}
    /\ \A f \in Files : readable[f]

SpecSpell == InitSpell /\ [][NextSpell]_vars

(***************************************************************************)
(* SpecLang: batch runs that ask for a language, a DPI and a strategy, on  *)
(* an installation that has both strategies.                               *)
(***************************************************************************)
\* The requests: the defaults, and one that differs in the language, in the
\* DPI, in the strategy.
Requests ==
    {[lang |-> "", dpi |-> DEFAULT_DPI, use_ocrmypdf |-> FALSE],
     [lang |-> "eng", dpi |-> DEFAULT_DPI, use_ocrmypdf |-> FALSE],
     [lang |-> "", dpi |-> DEFAULT_DPI \div 2, use_ocrmypdf |-> FALSE],
     [lang |-> "", dpi |-> DEFAULT_DPI, use_ocrmypdf |-> TRUE]}

\* Lines 178-197 with the lang, dpi and use_ocrmypdf arguments.
BatchBeginWith(rq, force, use_cache) ==
    /\ pc = "idle"
    /\ pc' = "loop"
    /\ run' = [force |-> force, use_cache |-> use_cache,
               use_ocrmypdf |-> rq.use_ocrmypdf, lang |-> rq.lang, dpi |-> rq.dpi,
               sink |-> {},
               pdf_files |-> SortedPaths(FOLDER, DOMAIN mtime), i |-> 0]
    /\ stats' = [NoStats EXCEPT !.total = Len(SortedPaths(FOLDER, DOMAIN mtime))]
    /\ events' = <<>>
    /\ tmp' = None
    /\ base' = index
    /\ UNCHANGED <<fsVars, cache, index, now, gui, job, ret, histVars>>

InitLang ==
    /\ mtime = [f \in Files |-> 1]
    /\ readable = [f \in Files |-> TRUE]
    /\ missing = {}
    /\ scratch = {}
    /\ log = NoLog
    /\ cache = [k \in CacheKeys |-> None]
    /\ index = <<>>
    /\ now = 0
    /\ gui = NoGui
    /\ job = NoJob
    /\ pc = "idle"
    /\ run = NoRun
    /\ stats = NoStats
    /\ events = <<>>
    /\ tmp = None
    /\ ret = None
    /\ seen = [f \in Files |-> None]
    /\ base = <<>>
    /\ since = [f \in Files |-> "new"]
    /\ upserted = {}

NextLang ==
    \/ \E m \in Times : Modify(1, m)
    \/ \E rq \in Requests, force \in BOOLEAN, uc \in BOOLEAN :
          BatchBeginWith(rq, force, uc)
    \/ BatchStartFile
    \/ BatchCheck
    \/ BatchOcr
    \/ BatchIndex
    \/ BatchSuccess
    \/ BatchReturn
    \/ BatchDone

SpecLang == InitLang /\ [][NextLang]_vars

(***************************************************************************)
(* SpecSink: batch runs whose progress sink raises at some of the events.  *)
(***************************************************************************)
\* The sinks: one that returns, and sinks that raise at one kind of event or
\* at both outcome events.
Sinks == {{}, {"start"}, {"skip"}, {"success"}, {"skip", "success"}, {"error"}}

\* Lines 178-197 with the progress_callback argument.
BatchBeginSink(sink, force) ==
    /\ pc = "idle"
    /\ pc' = "loop"
    /\ run' = [force |-> force, use_cache |-> FALSE, use_ocrmypdf |-> FALSE,
               lang |-> "", dpi |-> DEFAULT_DPI, sink |-> sink,
               pdf_files |-> SortedPaths(FOLDER, DOMAIN mtime), i |-> 0]
    /\ stats' = [NoStats EXCEPT !.total = Len(SortedPaths(FOLDER, DOMAIN mtime))]
    /\ events' = <<>>
    /\ tmp' = None
    /\ base' = index
    /\ UNCHANGED <<fsVars, cache, index, now, gui, job, ret, histVars>>

\* An exception has left batch_ocr_folder: the caller has it, the call's
\* locals are gone.
BatchAbort ==
    /\ pc = "raised"
    /\ pc' = "idle"
    /\ run' = NoRun
    /\ stats' = NoStats
    /\ events' = <<>>
    /\ base' = <<>>
    /\ tmp' = None
    /\ since' = [f \in Files |-> "mixed"]
    /\ UNCHANGED <<fsVars, cache, index, now, gui, job, ret, seen, upserted>>

NextSink ==
    \/ \E m \in Times : Modify(1, m)
    \/ \E sink \in Sinks, force \in BOOLEAN : BatchBeginSink(sink, force)
    \/ BatchStartFile
    \/ BatchCheck
    \/ BatchOcr
    \/ BatchIndex
    \/ BatchSuccess
    \/ BatchReturn
    \/ BatchDone
    \/ BatchAbort

SpecSink == InitHeal /\ [][NextSink]_vars

\* SpecSink with the loop making progress: every statement of the call is
\* taken once it is reached (the recognition and the sink return or raise,
\* the interpreter goes on), and an exception leaves the call.
FairSink ==
    /\ SpecSink
    /\ WF_vars(BatchStartFile)
    /\ WF_vars(BatchCheck)
    /\ WF_vars(BatchOcr)
    /\ WF_vars(BatchIndex)
    /\ WF_vars(BatchSuccess)
    /\ WF_vars(BatchReturn)
    /\ WF_vars(BatchAbort)

(***************************************************************************)
(* SpecPair: two callers (threads or processes, each with its own          *)
(* connection) inside index_pdf for the same path, statement by statement. *)
(* The SELECT (lines 129-132) runs before the connection has begun its     *)
(* transaction; the INSERT (lines 137-158) begins it and takes the         *)
(* database's write lock, which the end of the with block releases, so the *)
(* writes of the two callers take effect one after the other.              *)
(***************************************************************************)
Callers == {"c1", "c2"}

\* Lines 123-125: the call's path, language and modification time.
NewCall(f, a, fs) ==
    [at |-> "start", path |-> PathStr(<<FOLDER, f>>), arg |-> a,
     modified_ns |-> ModifiedNs(f, fs), action |-> "", existed |-> FALSE]

PairBegin(f, a1, a2) ==
    /\ pc = "idle"
    /\ pc' = "pair"
    /\ tmp' = [c1 |-> NewCall(f, a1, mtime), c2 |-> NewCall(f, a2, mtime)]
    /\ UNCHANGED <<fsVars, cache, index, now, gui, job, run, stats, events, ret, base,
                   histVars>>

\* Lines 129-135: the lookup and the action derived from it.
PairSelect(c) ==
    /\ pc = "pair"
    /\ tmp[c].at = "start"
    /\ tmp' = [tmp EXCEPT ![c].at = "selected",
                          ![c].action = UpsertAction(index, tmp[c].path)]
    /\ UNCHANGED <<fsVars, cache, index, now, gui, job, pc, run, stats, events, ret, base,
                   histVars>>

\* Lines 137-159: the INSERT ... ON CONFLICT and the commit.  existed: whether
\* the path had a record when this write took effect.
PairWrite(c) ==
    /\ pc = "pair"
    /\ tmp[c].at = "selected"
    /\ index' = Upsert(index, tmp[c].path, tmp[c].arg.text, tmp[c].arg.page_count,
                       now, tmp[c].modified_ns, Language(tmp[c].arg.lang))
    /\ upserted' = upserted \cup {tmp[c].path}
    /\ tmp' = [tmp EXCEPT ![c].at = "written",
                          ![c].existed = GetIndexRecord(index, tmp[c].path) # None]
    /\ UNCHANGED <<fsVars, cache, now, gui, job, pc, run, stats, events, ret, base, seen,
                   since>>

\* Lines 161-162: the log line, and the action is returned.
PairReturn(c) ==
    /\ pc = "pair"
    /\ tmp[c].at = "written"
    /\ log' = Log(log).log
    /\ tmp' = [tmp EXCEPT ![c].at = "returned"]
    /\ UNCHANGED <<diskVars, cache, index, now, gui, job, pc, run, stats, events, ret, base,
                   histVars>>

\* Both callers have their return value.
PairEnd ==
    /\ pc = "pair"
    /\ \A c \in Callers : tmp[c].at = "returned"
    /\ pc' = "idle"
    /\ tmp' = None
    /\ UNCHANGED <<fsVars, cache, index, now, gui, job, run, stats, events, ret, base,
                   histVars>>

NextPair ==
    \/ Tick
    \/ \E f \in IndexFiles, a1 \in IndexArgs, a2 \in IndexArgs : PairBegin(f, a1, a2)
    \/ \E c \in Callers : PairSelect(c)
    \/ \E c \in Callers : PairWrite(c)
    \/ \E c \in Callers : PairReturn(c)
    \/ PairEnd

SpecPair == Init /\ [][NextPair]_vars

(***************************************************************************)
(* search_keyword (SpecSearch).  A text is a sequence of characters, a     *)
(* character a string; "U+0130" is the dotted capital I, whose lower case  *)
(* is the two characters "i" and "U+0307"; positions count from 0.         *)
(***************************************************************************)
DigitChars == <<"0", "1", "2", "3", "4", "5", "6", "7", "8", "9">>

\* str(page_index).
RECURSIVE StrOf(_)
StrOf(n) ==
    IF n < 10 THEN <<DigitChars[n + 1]>>
    ELSE StrOf(n \div 10) \o <<DigitChars[(n % 10) + 1]>>

Whitespace == {" ", "\n", "\t"}

\* str.strip().
RECURSIVE Strip(_)
Strip(t) ==
    IF t = <<>> THEN <<>>
    ELSE IF Head(t) \in Whitespace THEN Strip(Tail(t))
    ELSE IF t[Len(t)] \in Whitespace THEN Strip(SubSeq(t, 1, Len(t) - 1))
    ELSE t

\* Lower case of the ASCII letters, the only ones LIKE folds.
AsciiLower(ch) ==
    CASE ch = "A" -> "a" [] ch = "B" -> "b" [] ch = "C" -> "c"
      [] ch = "P" -> "p" [] OTHER -> ch

\* str.lower() of one character.
LowerChar(ch) ==
    CASE ch = "U+0130" -> <<"i", "U+0307">>
      [] OTHER -> <<AsciiLower(ch)>>

\* str.lower().
RECURSIVE Lower(_)
Lower(t) == IF t = <<>> THEN <<>> ELSE LowerChar(Head(t)) \o Lower(Tail(t))

\* t[start:end] for start >= 0; a negative end counts from the end of t.
Slice(t, start, end) ==
    LET hi == IF end < 0 THEN Max(0, Len(t) + end) ELSE Min(end, Len(t))
    IN IF start < hi THEN SubSeq(t, start + 1, hi) ELSE <<>>

StartsAt(t, sub, i) == i + Len(sub) <= Len(t) /\ SubSeq(t, i + 1, i + Len(sub)) = sub

\* str.find(sub, start): the least position of sub at or after start, or -1.
Find(t, sub, start) ==
    LET at == {i \in start..Len(t) : StartsAt(t, sub, i)}
    IN IF at = {} THEN -1 ELSE CHOOSE i \in at : \A j \in at : i <= j

\* str.rfind(sub, start, end): the greatest position of sub within t[start:end].
RFind(t, sub, start, end) ==
    LET at == {i \in start..Min(end, Len(t)) :
                  StartsAt(t, sub, i) /\ i + Len(sub) <= Min(end, Len(t))}
    IN IF at = {} THEN -1 ELSE CHOOSE i \in at : \A j \in at : i >= j

\* str.replace("\n", " ").
Replace(t) == [i \in 1..Len(t) |-> IF t[i] = "\n" THEN " " ELSE t[i]]

\* SQLite's LIKE: % is any run of characters, _ any one character, letters
\* compare with ASCII case folded.
RECURSIVE LikeFrom(_, _, _, _)
LikeFrom(pat, i, t, j) ==
    IF i > Len(pat) THEN j > Len(t)
    ELSE IF pat[i] = "%" THEN \E k \in j..(Len(t) + 1) : LikeFrom(pat, i + 1, t, k)
    ELSE IF j > Len(t) THEN FALSE
    ELSE IF pat[i] = "_" THEN LikeFrom(pat, i + 1, t, j + 1)
    ELSE AsciiLower(pat[i]) = AsciiLower(t[j]) /\ LikeFrom(pat, i + 1, t, j + 1)

Like(t, pat) == LikeFrom(pat, 1, t, 1)

Ellipsis == <<".", ".", ".">>

\* Mutant: the window starts one character early.
BuildSnippetWide(text, position, keyword_len, context_chars) ==
    LET start == Max(0, position - context_chars - 1)
        end == Min(Len(text), position + keyword_len + context_chars)
    IN (IF start > 0 THEN <<".", ".", ".">> ELSE <<>>)
       \o [i \in 1..Len(Slice(text, start, end)) |->
             IF Slice(text, start, end)[i] = "\n" THEN " "
             ELSE Slice(text, start, end)[i]]
       \o (IF end < Len(text) THEN <<".", ".", ".">> ELSE <<>>)

\* _build_snippet (lines 426-434).
BuildSnippet(text, position, keyword_len, context_chars) ==
    LET start == Max(0, position - context_chars)
        end == Min(Len(text), position + keyword_len + context_chars)
        snippet == Replace(Slice(text, start, end))
        prefix == IF start > 0 THEN Ellipsis ELSE <<>>
        suffix == IF end < Len(text) THEN Ellipsis ELSE <<>>
    IN prefix \o snippet \o suffix

\* int(number_str); a ValueError makes the caller return 1.
RECURSIVE IntOf(_, _)
IntOf(t, acc) ==
    IF t = <<>> THEN acc
    ELSE LET d == {k \in 0..9 : DigitChars[k + 1] = Head(t)}
         IN IF d = {} THEN -1 ELSE IntOf(Tail(t), 10 * acc + (CHOOSE k \in d : TRUE))

PageMarker == <<"=", "=", "=", " ", "P", "a", "g", "e", " ">>
EndMarker == <<"=", "=", "=">>

\* _infer_page_number (lines 436-448).
InferPageNumber(text, position) ==
    LET marker_pos == RFind(text, PageMarker, 0, position)
    IN IF marker_pos = -1 THEN 1
       ELSE LET end_marker == Find(text, EndMarker, marker_pos + Len(PageMarker))
            IN IF end_marker = -1 THEN 1
               ELSE LET number_str ==
                            Strip(Slice(text, marker_pos + Len(PageMarker), end_marker))
                        n == IF number_str = <<>> THEN -1 ELSE IntOf(number_str, 0)
                    IN IF n = -1 THEN 1 ELSE n

\* The text both strategies build (lines 363-366, 396-399): for each page
\* "=== Page i ===\n" + strip(page text) + "\n", the parts joined by "\n".
RECURSIVE JoinPages(_, _)
JoinPages(bodies, i) ==
    IF i > Len(bodies) THEN <<>>
    ELSE PageMarker \o StrOf(i) \o <<" ">> \o EndMarker \o <<"\n">>
         \o Strip(bodies[i]) \o <<"\n">>
         \o (IF i < Len(bodies) THEN <<"\n">> ELSE <<>>)
         \o JoinPages(bodies, i + 1)

BuildText(bodies) == JoinPages(bodies, 1)

Rep(ch, n) == [i \in 1..n |-> ch]

\* Page texts of documents the pipeline has recognized.
PipelineDocs ==
    {<< <<"x", "\n", "a", "_", "c", " ", "y">>, <<"A", "B", "c">> >>,
     << Rep("U+0130", 13) \o <<"a", "b">>, <<"c", "\n", "a", "b", "c">> >>}

\* The texts the index may hold: recognized documents and texts handed to
\* index_pdf directly.
SearchTexts ==
    {BuildText(bodies) : bodies \in PipelineDocs}
    \cup {<<"a", "b", "c">>, <<"c", "\n", "A", "b">>}

\* Keywords as the caller types them.
Keywords ==
    {<<" ", "a", "_", "c">>, <<"a", "B">>, <<"c">>, <<" ", "\n">>, <<>>}

Limits == 1..MaxLimit
Contexts == -1..MaxContext

\* ORDER BY created_at DESC: the rows, newest first; rows of the same second
\* come in an order SQLite is free to choose.
Ordered(rows) ==
    {o \in [1..Len(rows) -> 1..Len(rows)] :
        /\ \A i, j \in 1..Len(rows) : i # j => o[i] # o[j]
        /\ \A i, j \in 1..Len(rows) :
              i < j => rows[o[i]].created_at >= rows[o[j]].created_at}

\* score=1.0 (line 284), the one score the baseline gives.
SCORE == 1

\* Lines 267-286: the loop over the fetched rows.
RECURSIVE Results(_, _, _)
Results(rows, sanitized, context_chars) ==
    IF rows = <<>> THEN <<>>
    ELSE LET text == Head(rows).text_content
             position == Find(Lower(text), Lower(sanitized), 0)
             rest == Results(Tail(rows), sanitized, context_chars)
         IN IF position = -1 THEN rest
            ELSE << [file_path |-> Head(rows).file_path,
                     page |-> InferPageNumber(text, position),
                     snippet |-> BuildSnippet(text, position, Len(sanitized),
                                              context_chars),
                     keyword |-> sanitized, score |-> SCORE] >> \o rest

\* Mutant: no early return, the query runs for every keyword.
QueriesIndexAlways(keyword) == TRUE

\* Lines 250-254: the database is opened only past the early return.
QueriesIndex(keyword) == Strip(keyword) # <<>>

\* search_keyword (lines 241-288), the rows read in the order o.
SearchKeyword(rows, o, keyword, limit, context_chars) ==
    LET sanitized == Strip(keyword)
        pattern == <<"%">> \o sanitized \o <<"%">>
        sorted == [i \in 1..Len(rows) |-> rows[o[i]]]
        like == SelectSeq(sorted, LAMBDA r : Like(r.text_content, pattern))
        fetched == SubSeq(like, 1, Min(limit, Len(like)))
    IN IF ~QueriesIndex(keyword) THEN <<>>
       ELSE Results(fetched, sanitized, context_chars)

CallSearchKeyword(keyword, limit, context_chars) ==
    /\ pc = "idle"
    /\ \E o \in Ordered(index) :
          ret' = [call |-> "search_keyword", keyword |-> keyword, limit |-> limit,
                  context_chars |-> context_chars, exc |-> NoExc,
                  queried |-> QueriesIndex(keyword),
                  results |-> SearchKeyword(index, o, keyword, limit, context_chars)]
    /\ pc' = "called"
    /\ UNCHANGED <<fsVars, cache, index, now, gui, job, batchVars, histVars>>

\* An index of up to MaxRows records made by earlier index_pdf calls.
SearchRows ==
    [id : {0}, file_path : {<<FOLDER, 0>>}, text_content : SearchTexts,
     page_count : {2}, created_at : 0..MaxClock, file_modified_at : {1},
     lang : {DEFAULT_LANG}]

InitSearch ==
    /\ mtime = [f \in Files |-> 1]
    /\ readable = [f \in Files |-> TRUE]
    /\ missing = {"ocrmypdf"}
    /\ scratch = {}
    /\ log = NoLog
    /\ cache = [k \in CacheKeys |-> None]
    /\ \E n \in 1..MaxRows : \E rows \in [1..n -> SearchRows] :
          index = [k \in 1..n |->
                     [rows[k] EXCEPT !.id = k, !.file_path = PathOf(FOLDER, k)]]
    /\ now = MaxClock
    /\ gui = NoGui
    /\ job = NoJob
    /\ pc = "idle"
    /\ run = NoRun /\ stats = NoStats /\ events = <<>> /\ tmp = None /\ base = <<>>
    /\ ret = None
    /\ seen = [f \in Files |-> None]
    /\ since = [f \in Files |-> "same"]
    /\ upserted = {PathOf(FOLDER, k) : k \in 1..Len(index)}

NextSearch ==
    \/ \E keyword \in Keywords, limit \in Limits, context_chars \in Contexts :
          CallSearchKeyword(keyword, limit, context_chars)
    \/ CallDone

SpecSearch == InitSearch /\ [][NextSearch]_vars

(***************************************************************************)
(* SpecDialog: SearchDialog (src/gui/dialogs/search_dialog.py).  The UI    *)
(* thread runs _start_search and the callbacks Tk took with after(); each  *)
(* worker thread runs _run_search.  A thread's record: the statement it is *)
(* at and the cell of the name exc, which the lambda of line 227 closes    *)
(* over and which Python unbinds at the end of the except block.           *)
(***************************************************************************)
MaxSearches == 2

\* What the user has typed in the keyword entry.
DialogKeywords == {<<" ">>, <<"k">>}

\* What search_keyword does for the worker: results, no results, or an
\* exception of sqlite3 (str(exc) below).
SearchOutcomes == {"results", "empty", "raises"}

ErrorText == "database is locked"
Unbound == ""

\* self.worker and self.worker.is_alive() (line 203): self.worker is the
\* thread started last.
WorkerAlive(g) ==
    g.threads # <<>> /\ g.threads[Len(g.threads)].at # "done"

\* _start_search (lines 197-217), called by the button and by <Return> in
\* the keyword entry (line 88).
StartSearch(keyword) ==
    /\ Len(gui.threads) < MaxSearches
    /\ IF Strip(keyword) = <<>>
       THEN gui' = [gui EXCEPT !.shown = @ \cup {"Missing keyword"}]
       ELSE /\ ~WorkerAlive(gui)
            /\ gui' = [gui EXCEPT
                          !.search_btn = "disabled",
                          !.threads = Append(@, [at |-> "search", exc |-> Unbound])]
    /\ UNCHANGED <<fsVars, cache, index, now, pc, batchVars, ret, histVars, job>>

\* _run_search (lines 219-229) up to the after() call: the else branch ends
\* the thread, the except branch is left by LeaveExcept.
RunSearch(t, outcome) ==
    /\ t \in 1..Len(gui.threads)
    /\ gui.threads[t].at = "search"
    /\ gui' = IF outcome = "raises"
              THEN [gui EXCEPT !.threads[t] = [at |-> "except", exc |-> ErrorText],
                               !.after = Append(@, [kind |-> "error", of |-> t,
                                                    results |-> outcome])]
              ELSE [gui EXCEPT !.threads[t].at = "done",
                               !.after = Append(@, [kind |-> "complete", of |-> t,
                                                    results |-> outcome])]
    /\ UNCHANGED <<fsVars, cache, index, now, pc, batchVars, ret, histVars, job>>

\* The end of the except block (line 227): exc is unbound, the thread ends.
LeaveExcept(t) ==
    /\ t \in 1..Len(gui.threads)
    /\ gui.threads[t].at = "except"
    /\ gui' = [gui EXCEPT !.threads[t] = [at |-> "done", exc |-> Unbound]]
    /\ UNCHANGED <<fsVars, cache, index, now, pc, batchVars, ret, histVars, job>>

\* _on_search_complete (lines 231-261): both branches enable the button.
OnSearchComplete(g, results) ==
    [g EXCEPT !.search_btn = "normal",
              !.shown = IF results = "empty" THEN g.shown \cup {"No results"}
                        ELSE g.shown]

\* _on_search_error (lines 263-267).
OnSearchError(g, message) ==
    [g EXCEPT !.search_btn = "normal", !.shown = g.shown \cup {message}]

\* The UI thread runs the callback Tk has had longest.  The lambda of line
\* 227 evaluates str(exc) when it runs: a NameError when exc is unbound by
\* then, which Tk reports and drops (died: the threads whose callback ended
\* so).
RunAfter ==
    /\ gui.after # <<>>
    /\ LET cb == Head(gui.after)
           g == [gui EXCEPT !.after = Tail(@)]
       IN gui' = IF cb.kind = "complete" THEN OnSearchComplete(g, cb.results)
                 ELSE IF gui.threads[cb.of].exc # Unbound
                 THEN OnSearchError(g, gui.threads[cb.of].exc)
                 ELSE [g EXCEPT !.died = @ \cup {cb.of}]
    /\ UNCHANGED <<fsVars, cache, index, now, pc, batchVars, ret, histVars, job>>

\* The dialog is opened anew.
Reopen ==
    /\ Len(gui.threads) = MaxSearches
    /\ ~WorkerAlive(gui)
    /\ gui.after = <<>>
    /\ gui' = NoGui
    /\ UNCHANGED <<fsVars, cache, index, now, pc, batchVars, ret, histVars, job>>

InitDialog ==
    /\ Init
    /\ missing = {"ocrmypdf"}
    /\ \A f \in Files : readable[f]

NextDialog ==
    \/ \E keyword \in DialogKeywords : StartSearch(keyword)
    \/ \E t \in 1..MaxSearches, outcome \in SearchOutcomes : RunSearch(t, outcome)
    \/ \E t \in 1..MaxSearches : LeaveExcept(t)
    \/ RunAfter
    \/ Reopen

SpecDialog == InitDialog /\ [][NextDialog]_vars

\* The threads run and Tk's main loop runs the callbacks it holds.
FairDialog ==
    /\ SpecDialog
    /\ \A t \in 1..MaxSearches :
          /\ WF_vars(\E outcome \in SearchOutcomes : RunSearch(t, outcome))
          /\ WF_vars(LeaveExcept(t))
    /\ WF_vars(RunAfter)

(***************************************************************************)
(* SpecWorker: PDFWorker.run (src/gui/workers/pdf_worker.py, lines 53-148) *)
(* statement by statement.  A callback is "" when it was not supplied      *)
(* (None), else what it does when called: "returns" or "raises".           *)
(***************************************************************************)
\* The operation names run knows (lines 56-119).
Operations == {"merge", "split", "delete", "rotate", "watermark", "optimize",
               "info", "ocr"}

\* The names a caller passes here, one of them unknown.
OperationNames == {"merge", "ocr", "scan"}

Callbacks == {"", "returns", "raises"}

\* PDFWorker(...) and start() (lines 26-51; OCRDialog._start_ocr, lines
\* 579-585).  fails: the operation's function raises.
WorkerStart(operation, fails, on_complete, on_error) ==
    /\ job.at = "none"
    /\ job' = [at |-> "run", operation |-> operation, fails |-> fails,
               on_complete |-> on_complete, on_error |-> on_error,
               error |-> "", calls |-> <<>>, uncaught |-> FALSE]
    /\ UNCHANGED <<fsVars, cache, index, now, pc, batchVars, ret, histVars, gui>>

\* Lines 55-139: the branch of the operation, which sets self.result, or the
\* ValueError of the else branch, or the exception of the operation.
WorkerOperate ==
    /\ job.at = "run"
    /\ job' = IF job.operation \notin Operations
              THEN [job EXCEPT !.at = "except", !.error = "Unknown operation"]
              ELSE IF job.fails
              THEN [job EXCEPT !.at = "except", !.error = "operation failed"]
              ELSE [job EXCEPT !.at = "complete"]
    /\ UNCHANGED <<fsVars, cache, index, now, pc, batchVars, ret, histVars, gui>>

\* Lines 141-143, still inside the try: the completion callback.
WorkerOnComplete ==
    /\ job.at = "complete"
    /\ job' = IF job.on_complete = "" THEN [job EXCEPT !.at = "done"]
              ELSE IF job.on_complete = "raises"
              THEN [job EXCEPT !.calls = Append(@, "on_complete"),
                               !.at = "except", !.error = "callback failed"]
              ELSE [job EXCEPT !.calls = Append(@, "on_complete"), !.at = "done"]
    /\ UNCHANGED <<fsVars, cache, index, now, pc, batchVars, ret, histVars, gui>>

\* Lines 145-148: the handler; an exception of on_error leaves run.
WorkerExcept ==
    /\ job.at = "except"
    /\ job' = IF job.on_error = "" THEN [job EXCEPT !.at = "done"]
              ELSE [job EXCEPT !.calls = Append(@, "on_error"), !.at = "done",
                               !.uncaught = (job.on_error = "raises")]
    /\ UNCHANGED <<fsVars, cache, index, now, pc, batchVars, ret, histVars, gui>>

\* The thread has ended and is dropped.
WorkerEnd ==
    /\ job.at = "done"
    /\ job' = NoJob
    /\ UNCHANGED <<fsVars, cache, index, now, pc, batchVars, ret, histVars, gui>>

NextWorker ==
    \/ \E operation \in OperationNames, fails \in BOOLEAN,
          on_complete \in Callbacks, on_error \in Callbacks :
             WorkerStart(operation, fails, on_complete, on_error)
    \/ WorkerOperate
    \/ WorkerOnComplete
    \/ WorkerExcept
    \/ WorkerEnd

SpecWorker == InitDialog /\ [][NextWorker]_vars

(***************************************************************************)
(* SpecShape: the two recognition strategies called on documents given as  *)
(* the sequence of page texts the backend reads (image_to_string, line     *)
(* 361; page.get_text, line 394).                                          *)
(***************************************************************************)
MaxPages == 3

\* Page texts as the backends return them, before strip().
PageTexts ==
    {<<>>, <<"a">>, <<" ", "b", "\n">>,
     PageMarker \o <<"2", " ">> \o EndMarker,
     <<"a", "\n">> \o PageMarker \o <<"9", " ">> \o EndMarker \o <<"\n", "b">>}

Documents == UNION {[1..n -> PageTexts] : n \in 1..MaxPages}

\* _ocr_via_pytesseract (lines 357-370): joined, doc.page_count.
OcrViaPytesseract(doc) == [text |-> BuildText(doc), page_count |-> Len(doc)]

\* _ocr_via_ocrmypdf (lines 390-400): joined, doc.page_count.
OcrViaOcrmypdf(doc) == [text |-> BuildText(doc), page_count |-> Len(doc)]

CallOcrViaPytesseract(doc) ==
    /\ pc = "idle"
    /\ pc' = "called"
    /\ ret' = [call |-> "_ocr_via_pytesseract", doc |-> doc, exc |-> NoExc,
               value |-> OcrViaPytesseract(doc)]
    /\ UNCHANGED <<fsVars, cache, index, now, gui, job, batchVars, histVars>>

\* The whole of _ocr_via_ocrmypdf (lines 372-405); the scratch file is created
\* and unlinked within the call.
CallOcrViaOcrmypdf(doc) ==
    /\ pc = "idle"
    /\ pc' = "called"
    /\ ret' = IF "ocrmypdf" \in missing
              THEN [call |-> "_ocr_via_ocrmypdf", doc |-> doc,
                    exc |-> "ImportError", value |-> None]
              ELSE [call |-> "_ocr_via_ocrmypdf", doc |-> doc, exc |-> NoExc,
                    value |-> OcrViaOcrmypdf(doc)]
    /\ UNCHANGED <<fsVars, cache, index, now, gui, job, batchVars, histVars>>

NextShape ==
    \/ \E doc \in Documents : CallOcrViaPytesseract(doc)
    \/ \E doc \in Documents : CallOcrViaOcrmypdf(doc)
    \/ CallDone

SpecShape == InitScratch /\ [][NextShape]_vars

(***************************************************************************)
(* SpecKeep: every public operation, the removal of source files and the   *)
(* construction of a new extractor on the same database.                   *)
(***************************************************************************)
\* Another program removes a file of the folder.
Remove(f) ==
    /\ pc = "idle"
    /\ f \in DOMAIN mtime
    /\ mtime' = [g \in DOMAIN mtime \ {f} |-> mtime[g]]
    /\ UNCHANGED <<readable, missing, scratch, log, cache, index, now, gui, job, pc, batchVars,
                   ret, histVars>>

\* Mutant: the table is dropped and created anew.
EnsureDbRecreate(rows) == <<>>

\* Mutant: the table is rebuilt by copying the rows, created_at left out.
WithColumnsCopied(r) ==
    [id |-> r.id, file_path |-> r.file_path, text_content |-> r.text_content,
     page_count |-> r.page_count, created_at |-> NULL,
     file_modified_at |-> IF "file_modified_at" \in DOMAIN r
                          THEN r.file_modified_at ELSE NULL,
     lang |-> IF "lang" \in DOMAIN r THEN r.lang ELSE ""]

\* Lines 327-335: ALTER TABLE ADD COLUMN for each of file_modified_at and lang
\* that PRAGMA table_info does not list; the row keeps what it holds and shows
\* SQL NULL in an added column (written "" for lang, as in Language).
WithColumns(r) ==
    [id |-> r.id, file_path |-> r.file_path, text_content |-> r.text_content,
     page_count |-> r.page_count, created_at |-> r.created_at,
     file_modified_at |-> IF "file_modified_at" \in DOMAIN r
                          THEN r.file_modified_at ELSE NULL,
     lang |-> IF "lang" \in DOMAIN r THEN r.lang ELSE ""]

\* _ensure_db (lines 312-337) on an existing database: CREATE TABLE IF NOT
\* EXISTS and CREATE INDEX IF NOT EXISTS change nothing; the columns
\* file_modified_at and lang are added where they are not there.
EnsureDb(rows) == [k \in 1..Len(rows) |-> WithColumns(rows[k])]

\* PDFOCRExtractor(db_path, cache_dir, log_path) (lines 61-74), for the first
\* time in this process ("closed") or again.
Construct ==
    /\ pc \in {"idle", "closed"}
    /\ index' = EnsureDb(index)
    /\ pc' = "called"
    /\ ret' = [call |-> "__init__", exc |-> NoExc, before |-> index]
    /\ UNCHANGED <<fsVars, cache, now, gui, job, batchVars, histVars>>

\* The characters a recognized text stands for are not fixed here: the search
\* runs over the records with any of these texts in their place.
KeepTexts == {<<"a", "b", "c">>, <<"c", "\n", "A", "b">>}

\* search_keyword (lines 241-288) over the index.
CallSearchKeywordOver(texts, keyword, limit, context_chars) ==
    /\ pc = "idle"
    /\ LET rows == [k \in 1..Len(index) |->
                      [index[k] EXCEPT !.text_content = texts[k]]]
       IN \E o \in Ordered(rows) :
             ret' = [call |-> "search_keyword", keyword |-> keyword,
                     limit |-> limit, context_chars |-> context_chars,
                     exc |-> NoExc, queried |-> QueriesIndex(keyword),
                     results |-> SearchKeyword(rows, o, keyword, limit,
                                               context_chars)]
    /\ pc' = "called"
    /\ UNCHANGED <<fsVars, cache, index, now, gui, job, batchVars, histVars>>

InitKeep ==
    /\ Init
    /\ missing = {"ocrmypdf"}
    /\ \A f \in Files : readable[f]

NextKeep ==
    \/ \E f \in Files : Remove(f)
    \/ Construct
    \/ \E uc \in BOOLEAN : CallOcrSinglePdf(2, uc, FALSE)
    \/ \E f \in {0, 2}, a \in IndexArgs : CallIndexPdf(FOLDER, f, a)
    \/ \E t \in KeepTexts, keyword \in Keywords :
          CallSearchKeywordOver([k \in 1..Len(index) |-> t], keyword, MaxLimit,
                                MaxContext)
    \/ CallExportIndex
    \/ CallDone
    \/ \E force \in BOOLEAN : BatchBegin(force, FALSE, FALSE)
    \/ BatchStartFile
    \/ BatchCheck
    \/ BatchOcr
    \/ BatchIndex
    \/ BatchSuccess
    \/ BatchReturn
    \/ BatchDone

SpecKeep == InitKeep /\ [][NextKeep]_vars

(***************************************************************************)
(* SpecFinger: _cache_key (lines 450-452) on file names and modification   *)
(* times given character by character, next to the calls that use it.      *)
(***************************************************************************)
\* File names of the folder, among them names that hold the separator of the
\* key source or end in a digit.
KeyNames == {<<"a">>, <<"a", "1">>, <<"a", ":", ":", "1">>, <<"a", ":">>}

\* st_mtime_ns values whose decimal forms share digits.
KeyTimes == {1, 2, 11, 12}

\* str(path.resolve()): both spellings of the folder are one location.
ResolveName(folder, name) == <<"/", "d", "/">> \o name

\* Mutant: the key source has no separator between path and time.
KeySourcePlain(resolved, mtime_ns) == resolved \o StrOf(mtime_ns)

\* f"{path.resolve()}::{path.stat().st_mtime_ns}" (line 451).
KeySource(resolved, mtime_ns) == resolved \o <<":", ":">> \o StrOf(mtime_ns)

\* hashlib.sha1(...).hexdigest() (line 452): a digest without collisions,
\* named by the string it is the digest of.
Sha1(key_source) == <<"sha1">> \o key_source

Fingerprint(folder, name, mtime_ns) ==
    Sha1(KeySource(ResolveName(folder, name), mtime_ns))

CallCacheKey(folder, name, mtime_ns) ==
    /\ pc = "idle"
    /\ pc' = "called"
    /\ ret' = [call |-> "_cache_key", folder |-> folder, name |-> name,
               mtime_ns |-> mtime_ns, exc |-> NoExc,
               key |-> Fingerprint(folder, name, mtime_ns)]
    /\ UNCHANGED <<fsVars, cache, index, now, gui, job, batchVars, histVars>>

NextFinger ==
    \/ \E f \in Files, m \in Times : Modify(f, m)
    \/ \E f \in Files : CallOcrSinglePdf(f, TRUE, FALSE)
    \/ \E folder \in ArgFolders, name \in KeyNames, m \in KeyTimes :
          CallCacheKey(folder, name, m)
    \/ CallDone

SpecFinger == InitKeep /\ [][NextFinger]_vars

(***************************************************************************)
(* SpecMigrate: the extractor is constructed on a database an earlier      *)
(* version made, whose table may lack file_modified_at, lang or both.      *)
(***************************************************************************)
MigratedColumns == {"file_modified_at", "lang"}

\* A row of a table that has the columns cols besides the original five.
LegacyRow(k, cols, m, lang) ==
    LET r == [id |-> k, file_path |-> PathOf(FOLDER, k),
              text_content |-> Truncate(RecognizedText(k, 1, FALSE)),
              page_count |-> PageCountOf(k), created_at |-> 0]
    IN IF cols = {} THEN r
       ELSE IF cols = {"file_modified_at"}
       THEN [id |-> r.id, file_path |-> r.file_path,
             text_content |-> r.text_content, page_count |-> r.page_count,
             created_at |-> r.created_at, file_modified_at |-> m]
       ELSE IF cols = {"lang"}
       THEN [id |-> r.id, file_path |-> r.file_path,
             text_content |-> r.text_content, page_count |-> r.page_count,
             created_at |-> r.created_at, lang |-> lang]
       ELSE [id |-> r.id, file_path |-> r.file_path,
             text_content |-> r.text_content, page_count |-> r.page_count,
             created_at |-> r.created_at, file_modified_at |-> m, lang |-> lang]

InitMigrate ==
    /\ mtime = [f \in Files |-> 1]
    /\ readable = [f \in Files |-> TRUE]
    /\ missing = {"ocrmypdf"}
    /\ scratch = {}
    /\ log = NoLog
    /\ cache = [k \in CacheKeys |-> None]
    /\ \E n \in 1..MaxRows, cols \in SUBSET MigratedColumns :
          \E ms \in [1..n -> {NULL, 1}], langs \in [1..n -> {"eng", DEFAULT_LANG}] :
             index = [k \in 1..n |-> LegacyRow(k, cols, ms[k], langs[k])]
    /\ now = 0
    /\ gui = NoGui
    /\ job = NoJob
    /\ pc = "closed"
    /\ run = NoRun /\ stats = NoStats /\ events = <<>> /\ tmp = None /\ base = <<>>
    /\ ret = None
    /\ seen = [f \in Files |-> None]
    /\ since = [f \in Files |-> "new"]
    /\ upserted = {PathOf(FOLDER, k) : k \in 1..Len(index)}

NextMigrate ==
    \/ Construct
    \/ Tick
    \/ \E f \in {0, 2}, a \in IndexArgs : CallIndexPdf(FOLDER, f, a)
    \/ CallExportIndex
    \/ CallDone

SpecMigrate == InitMigrate /\ [][NextMigrate]_vars

(***************************************************************************)
(* Properties of batch_ocr_folder, under Spec.                             *)
(***************************************************************************)
Running == pc \in {"loop", "check", "ocr", "index", "emit", "returned", "raised"}

Unreadable == {f \in Files : ~readable[f]}

\* What the strategy of the running call needs is installed.
RunCanRecognize ==
    /\ missing \cap {"fitz", "pytesseract", "PIL"} = {}
    /\ run.use_ocrmypdf => "ocrmypdf" \notin missing

EventsOf(status) == {j \in 1..Len(events) : events[j][4] = status}

HasRecord(rows, f) == \E k \in 1..Len(rows) : rows[k].file_path = PathOf(FOLDER, f)
RecordOf(rows, f) ==
    rows[CHOOSE k \in 1..Len(rows) : rows[k].file_path = PathOf(FOLDER, f)]

\* C1 (batch isolation): a batch call over the N files that starts on an empty
\* index, with exactly one file k on which recognition fails, lets no exception
\* escape and returns indexed = N-1 and an error list of one entry, for k; every
\* other file has been recognized and indexed, wherever k sorts.
C1_BatchIsolation ==
    \A k \in Files :
        (Running /\ base = <<>> /\ RunCanRecognize /\ Unreadable = {k})
        => /\ pc # "raised"
           /\ pc = "returned" =>
                /\ ret.exc = NoExc
                /\ ret.value.indexed = NumFiles - 1
                /\ ret.value.errors = <<PathOf(FOLDER, k)>>
                /\ \A f \in Files \ {k} :
                     /\ HasRecord(index, f)
                     /\ RecordOf(index, f).text_content =
                          Truncate(RecognizedText(f, mtime[f], run.use_ocrmypdf))
                     /\ RecordOf(index, f).page_count = PageCountOf(f)
                /\ ~HasRecord(index, k)

\* The unreadable file is the middle one: the files before and after it are in.
C1_Witness ==
    /\ pc = "returned"
    /\ base = <<>>
    /\ Unreadable = {2}
    /\ ret.value.indexed = NumFiles - 1
    /\ ret.value.errors = <<PathOf(FOLDER, 2)>>
    /\ HasRecord(index, 1) /\ HasRecord(index, NumFiles)

\* C2 (staleness monotonicity): without force, a file that has a record with
\* stored modification time s and whose current modification time is m goes on
\* to recognition iff m > s; when m = s or m < s it is skipped: one skip event,
\* skipped incremented, nothing else written.
C2_Staleness ==
    [][(pc = "check" /\ ~run.force /\ HasRecord(index, FileOf(run.pdf_files[run.i])))
       => LET f == FileOf(run.pdf_files[run.i])
              s == RecordOf(index, f).file_modified_at
              m == mtime[f]
          IN /\ (m > s) <=> (pc' = "ocr")
             /\ (m > s) => (events' = events /\ stats' = stats)
             /\ (m <= s) =>
                  /\ pc' = "loop"
                  /\ events' = Append(events, <<run.i, NumFiles, PathOf(FOLDER, f), "skip">>)
                  /\ stats' = [stats EXCEPT !.skipped = stats.skipped + 1]
                  /\ index' = index /\ cache' = cache]_vars

\* A file older than its record (m < s) has just been skipped.
C2_Witness ==
    /\ pc = "loop"
    /\ events # <<>>
    /\ events[Len(events)][4] = "skip"
    /\ LET f == FileOf(events[Len(events)][3])
       IN HasRecord(index, f) /\ mtime[f] < RecordOf(index, f).file_modified_at

\* C3 (repeated runs): over N readable files, a non-forced run returns
\* indexed = |S| and skipped = N - |S|, where S is all the files on the first run
\* from the empty index, no file when nothing changed since the previous run, and
\* the files whose modification time was raised since the previous run, which are
\* exactly the files that get a success event and are each counted as updated.
C3_RepeatedRuns ==
    (/\ pc = "returned" /\ ~run.force /\ Unreadable = {} /\ RunCanRecognize
     /\ \A f \in Files : since[f] # "mixed")
    => LET New == {f \in Files : since[f] = "new"}
           Up == {f \in Files : since[f] = "up"}
       IN /\ ret.value.indexed = Cardinality(New \cup Up)
          /\ ret.value.skipped = NumFiles - Cardinality(New \cup Up)
          /\ ret.value.updated = Cardinality(Up)
          /\ ret.value.errors = <<>>
          /\ base = <<>> => (New = Files /\ ret.value.indexed = NumFiles
                             /\ ret.value.skipped = 0)
          /\ \A f \in Files :
                (f \in New \cup Up) <=>
                    \E j \in EventsOf("success") : events[j][3] = PathOf(FOLDER, f)

\* The third run of the scenario: one file was touched after two runs.
C3_Witness ==
    /\ pc = "returned" /\ ~run.force /\ Unreadable = {} /\ RunCanRecognize
    /\ since[1] = "up"
    /\ \A f \in Files \ {1} : since[f] = "same"
    /\ ret.value.indexed = 1 /\ ret.value.updated = 1
    /\ ret.value.skipped = NumFiles - 1

\* C7 (per-file state machine): the sink receives, for the files in sorted path
\* order with indexes 1..total, one start event and then one terminal event
\* (skip, success or error) per file; nothing of file i+1 comes before the
\* terminal event of file i; a success event comes only once the recognition
\* has returned and the upsert of that file is committed.
Terminal == {"skip", "success", "error"}

C4_CacheCorrectness ==
    [][\A f \in Files :
         (/\ pc = "idle" /\ pc' = "called"
          /\ ret'.call = "ocr_single_pdf"
          /\ ret'.path = PathOf(FOLDER, f)
          /\ ret'.use_cache
          /\ seen[f] # None)
         => /\ ret'.exc = NoExc
            /\ ret'.value = seen[f]
            /\ ~ret'.backend
            /\ cache' = cache]_vars

\* A second call with use_cache has returned the first call's value from the
\* cache, with the other strategy requested this time.
C4_Witness ==
    /\ pc = "called"
    /\ ret.call = "ocr_single_pdf"
    /\ ret.use_cache /\ ~ret.backend /\ ret.exc = NoExc
    /\ ret.value # None
    /\ ret.value = seen[FileOf(ret.path)]
    /\ ret.value.text.by = "pytesseract"
    /\ ret.use_ocrmypdf

(***************************************************************************)
(* Properties of index_pdf, under SpecIndex.                               *)
(***************************************************************************)
RowsOf(rows, p) == {k \in 1..Len(rows) : rows[k].file_path = p}

IndexCalled == pc = "called" /\ ret.call = "index_pdf"

\* C5 (upsert idempotence and uniqueness): after every index_pdf call of a
\* single writer the index holds exactly one record per path ever upserted and
\* no other record; the first call for a path reports "inserted", every later
\* call for it, a repeat with the same arguments included, reports "updated".
C5_UpsertUnique ==
    [][(pc = "idle" /\ pc' = "called" /\ ret'.call = "index_pdf")
       => /\ ret'.action = (IF ret'.path \in upserted THEN "updated" ELSE "inserted")
          /\ \A p \in upserted' : Cardinality(RowsOf(index', p)) = 1
          /\ \A k \in 1..Len(index') : index'[k].file_path \in upserted'
          /\ Len(index') = Cardinality(upserted')]_vars

\* A repeat with the same arguments at the same time: "updated", and the record
\* is what it was, next to the record of another path.
C5_Witness ==
    /\ IndexCalled
    /\ ret.action = "updated"
    /\ ret.before = GetIndexRecord(index, ret.path)
    /\ Len(index) = 2 /\ Cardinality(upserted) = 2

\* C6 (upsert frame), as the code has it: an index_pdf call on a path that has a
\* record replaces the record's text by the first 500000 characters of the
\* call's text, its page count and language by the call's (the default language
\* when the call names none), its timestamp by the time of the call and its
\* stored modification time by the file's (null when the file does not exist);
\* it keeps the record's id and path and leaves every other record unchanged.
C6_UpsertFrame ==
    [][(pc = "idle" /\ pc' = "called" /\ ret'.call = "index_pdf"
        /\ RowsOf(index, ret'.path) # {})
       => /\ Len(index') = Len(index)
          /\ \A k \in 1..Len(index) :
               IF index[k].file_path = ret'.path
               THEN index'[k] =
                      [id |-> index[k].id, file_path |-> index[k].file_path,
                       text_content |-> [ret'.text EXCEPT
                                           !.len = Min(ret'.text.len, TEXT_CAP)],
                       page_count |-> ret'.page_count,
                       created_at |-> now,
                       file_modified_at |-> ret'.modified_ns,
                       lang |-> Language(ret'.lang)]
               ELSE index'[k] = index[k]]_vars

\* A record of a short text has been replaced by a text longer than the cap,
\* at a later time, with another record in the index.
C6_Witness ==
    /\ IndexCalled
    /\ ret.before # None
    /\ ret.text.len > TEXT_CAP
    /\ ret.before.text_content.len < TEXT_CAP
    /\ ret.before.created_at < now
    /\ GetIndexRecord(index, ret.path).text_content.len = TEXT_CAP
    /\ GetIndexRecord(index, ret.path).id = ret.before.id
    /\ Len(index) > 1

\* C6 as stated: the record's text is replaced by the text of the call.
C6_AsStated ==
    [][(pc = "idle" /\ pc' = "called" /\ ret'.call = "index_pdf"
        /\ RowsOf(index, ret'.path) # {})
       => /\ Len(index') = Len(index)
          /\ \A k \in 1..Len(index) :
               IF index[k].file_path = ret'.path
               THEN /\ index'[k].id = index[k].id
                    /\ index'[k].file_path = index[k].file_path
                    /\ index'[k].text_content = ret'.text
                    /\ index'[k].page_count = ret'.page_count
                    /\ index'[k].created_at = now
                    /\ index'[k].file_modified_at = ret'.modified_ns
                    /\ index'[k].lang = Language(ret'.lang)
               ELSE index'[k] = index[k]]_vars

(***************************************************************************)
(* Properties of search_keyword, under SpecSearch.                         *)
(***************************************************************************)
SearchCalled == pc = "called" /\ ret.call = "search_keyword"

TextOf(path) == GetIndexRecord(index, path).text_content
CreatedAt(path) == GetIndexRecord(index, path).created_at

\* The text contains the keyword, case-insensitively.
Contains(t, k) == Find(Lower(t), Lower(k), 0) # -1

Matching(k) == {i \in 1..Len(index) : Contains(index[i].text_content, k)}

\* C8 (search completeness): for a keyword k that is not empty once stripped and
\* a limit L, search_keyword returns one result for each of the newest
\* min(L, m) of the m records whose text contains k case-insensitively, newest
\* first; the LIKE pre-filter and the limit never leave out a matching record
\* while fewer than L results are returned, wildcards in k included.
C8_SearchComplete ==
    (SearchCalled /\ Strip(ret.keyword) # <<>>)
    => LET k == Strip(ret.keyword)
           R == ret.results
           found == {R[j].file_path : j \in 1..Len(R)}
       IN /\ Len(R) = Min(ret.limit, Cardinality(Matching(k)))
          /\ Cardinality(found) = Len(R)
          /\ found \subseteq {index[i].file_path : i \in Matching(k)}
          /\ \A i, j \in 1..Len(R) :
                i < j => CreatedAt(R[i].file_path) >= CreatedAt(R[j].file_path)
          /\ \A i \in Matching(k) :
                index[i].file_path \notin found
                => \A j \in 1..Len(R) :
                      CreatedAt(R[j].file_path) >= index[i].created_at

HasNewline(t) == \E i \in 1..Len(t) : t[i] = "\n"

\* C9 (snippet bounds), as the code has it: no snippet search_keyword returns
\* contains a newline, and for context_chars = c >= 0 every snippet is at most
\* 2c + len(keyword) + 2*len("...") characters long.
C9_SnippetBounds ==
    SearchCalled
    => \A j \in 1..Len(ret.results) :
          /\ ~HasNewline(ret.results[j].snippet)
          /\ ret.context_chars >= 0
             => Len(ret.results[j].snippet)
                   <= 2 * ret.context_chars + Len(ret.results[j].keyword)
                      + 2 * Len(Ellipsis)

\* A snippet clipped on both sides that is exactly as long as the bound, and
\* whose window of the text held a newline.
C9_Witness ==
    /\ SearchCalled
    /\ ret.context_chars > 0
    /\ \E j \in 1..Len(ret.results) :
          LET r == ret.results[j]
              t == TextOf(r.file_path)
              position == Find(Lower(t), Lower(r.keyword), 0)
          IN /\ Len(r.snippet) = 2 * ret.context_chars + Len(r.keyword) + 6
             /\ HasNewline(Slice(t, position - ret.context_chars,
                                 position + Len(r.keyword) + ret.context_chars))

\* C9 as stated: the length bound for every context_chars.
C9_AsStated ==
    SearchCalled
    => \A j \in 1..Len(ret.results) :
          /\ ~HasNewline(ret.results[j].snippet)
          /\ Len(ret.results[j].snippet)
                <= 2 * ret.context_chars + Len(ret.results[j].keyword)
                   + 2 * Len(Ellipsis)

\* Where the keyword first occurs in the text itself: the least p such that
\* some stretch of the text from p on is the keyword in lower case.
TruePos(t, k) ==
    LET at == {p \in 0..Len(t) :
                  \E q \in p..Len(t) : Lower(SubSeq(t, p + 1, q)) = Lower(k)}
    IN IF at = {} THEN -1 ELSE CHOOSE p \in at : \A q \in at : p <= q

FullMarker(n) == PageMarker \o StrOf(n) \o <<" ">> \o EndMarker

MarkerAt(t, q) == {n \in 1..9 : StartsAt(t, FullMarker(n), q)}

\* The number of the nearest marker that lies wholly before position p, or 1.
NearestPage(t, p) ==
    LET before == {q \in 0..Max(p, 0) :
                      \E n \in MarkerAt(t, q) : q + Len(FullMarker(n)) <= p}
    IN IF before = {} THEN 1
       ELSE CHOOSE n \in MarkerAt(t, CHOOSE q \in before : \A x \in before : q >= x) :
               TRUE

\* Where the body of page j starts in BuildText(bodies).
RECURSIVE BodyStart(_, _)
BodyStart(bodies, j) ==
    (IF j = 1 THEN 0
     ELSE BodyStart(bodies, j - 1) + Len(Strip(bodies[j - 1])) + 2)
    + Len(FullMarker(j)) + 1

\* C10 (page inference): the page of a result is the number of the nearest
\* "=== Page N ===" marker wholly before the place of the match, 1 when there is
\* none; so for a text the pipeline built, a keyword that first occurs in the
\* body of page j is reported on page j.
C10_PageInference ==
    SearchCalled
    => \A j \in 1..Len(ret.results) :
          LET r == ret.results[j]
              t == TextOf(r.file_path)
              p == TruePos(t, r.keyword)
          IN /\ r.page = NearestPage(t, p)
             /\ \A bodies \in PipelineDocs :
                   BuildText(bodies) = t
                   => \A pg \in 1..Len(bodies) :
                         (/\ BodyStart(bodies, pg) <= p
                          /\ p < BodyStart(bodies, pg) + Len(Strip(bodies[pg])))
                         => r.page = pg

\* C11 (empty keyword): search_keyword with an empty or whitespace-only keyword
\* returns the empty list, raises nothing and does not read the index, whatever
\* the index holds.
C11_EmptyKeyword ==
    (SearchCalled /\ \A i \in 1..Len(ret.keyword) : ret.keyword[i] \in Whitespace)
    => /\ ret.results = <<>>
       /\ ret.exc = NoExc
       /\ ~ret.queried

\* A whitespace-only keyword over an index whose texts hold that whitespace.
C11_Witness ==
    /\ SearchCalled
    /\ ret.keyword = <<" ", "\n">>
    /\ ret.results = <<>>
    /\ Len(index) > 1
    /\ \A k \in 1..Len(index) : HasNewline(index[k].text_content)

(***************************************************************************)
(* Properties of export_index, under SpecIndex.                            *)
(***************************************************************************)
\* C12 (export round trip): after any sequence of upserts, the file
\* export_index writes parses into as many records as the index holds, one per
\* DocumentRecord, with the record's file_path, page_count, text, created_at and
\* lang; the export leaves the index unchanged.
C12_ExportRoundTrip ==
    [][(pc = "idle" /\ pc' = "called" /\ ret'.call = "export_index")
       => LET parsed == JsonLoad(ret'.file)
          IN /\ ret'.exc = NoExc
             /\ Len(parsed) = Len(index)
             /\ \A k \in 1..Len(index) :
                   Cardinality({j \in 1..Len(parsed) :
                       /\ parsed[j].file_path = index[k].file_path
                       /\ parsed[j].page_count = index[k].page_count
                       /\ parsed[j].text_content = index[k].text_content
                       /\ parsed[j].created_at = index[k].created_at
                       /\ parsed[j].lang = index[k].lang}) = 1
             /\ index' = index]_vars

\* An export of three records: one of a file that does not exist, one of a
\* text cut at the cap, made at different times in two languages.
C12_Witness ==
    /\ pc = "called" /\ ret.call = "export_index"
    /\ Len(ret.file) = 3 /\ Len(index) = 3
    /\ \E k \in 1..3 : index[k].file_modified_at = NULL
    /\ \E k \in 1..3 : index[k].text_content.len = TEXT_CAP
    /\ \E j, k \in 1..3 : index[j].created_at # index[k].created_at
    /\ \E j, k \in 1..3 : index[j].lang # index[k].lang

(***************************************************************************)
(* More properties of batch_ocr_folder, under Spec.                        *)
(***************************************************************************)
\* C13 (force): a forced run never skips: no skip event, skipped = 0, every file
\* ends as indexed or as an error; when the N files are readable the run returns
\* indexed = N, each record carrying the file's current modification time, and
\* updated = the number of files that had a record, N when all were indexed.
C13_Force ==
    (Running /\ run.force)
    => /\ stats.skipped = 0
       /\ EventsOf("skip") = {}
       /\ pc = "returned" =>
            /\ ret.value.indexed + Len(ret.value.errors) = NumFiles
            /\ (Unreadable = {} /\ RunCanRecognize) =>
                 /\ ret.value.indexed = NumFiles
                 /\ ret.value.updated =
                       Cardinality({f \in Files : HasRecord(base, f)})
                 /\ \A f \in Files :
                       /\ HasRecord(index, f)
                       /\ RecordOf(index, f).file_modified_at = mtime[f]
                 /\ (\A f \in Files : HasRecord(base, f))
                    => ret.value.updated = NumFiles

\* A forced run over files that were all indexed and not newer than their
\* records, one of them older: all are indexed again and counted as updated.
C13_Witness ==
    /\ pc = "returned" /\ run.force
    /\ \A f \in Files :
          HasRecord(base, f) /\ RecordOf(base, f).file_modified_at >= mtime[f]
    /\ \E f \in Files : RecordOf(base, f).file_modified_at > mtime[f]
    /\ ret.value.indexed = NumFiles /\ ret.value.updated = NumFiles
    /\ ret.value.skipped = 0

(***************************************************************************)
(* Properties of the cache lookup, under SpecCache.                        *)
(***************************************************************************)
\* C14 (cache lookup fails open): when the cache file of the file's fingerprint
\* is missing or corrupt (not parseable, not an entry object, page count not a
\* number), ocr_single_pdf with use_cache on a readable file whose strategy is
\* installed raises nothing, runs the recognition and returns what it has just
\* recognized, nothing of the corrupt file.
C14_CacheFailsOpen ==
    [][\A f \in Files :
         (/\ pc = "idle" /\ pc' = "called"
          /\ ret'.call = "ocr_single_pdf"
          /\ ret'.path = PathOf(FOLDER, f)
          /\ ret'.use_cache
          /\ readable[f]
          /\ missing \cap {"fitz", "pytesseract", "PIL"} = {}
          /\ ret'.use_ocrmypdf => "ocrmypdf" \notin missing
          /\ LET payload == cache[CacheKey(PathOf(FOLDER, f), mtime)]
             IN payload = None \/ "damage" \in DOMAIN payload)
         => /\ ret'.exc = NoExc
            /\ ret'.backend
            /\ ret'.value = [text |-> RecognizedText(f, mtime[f], ret'.use_ocrmypdf),
                             page_count |-> PageCountOf(f)]]_vars

(***************************************************************************)
(* Dependencies of batch_ocr_folder, under Spec.                           *)
(***************************************************************************)
\* C15 (eager dependency check): when a capability the run needs is not
\* installed, batch_ocr_folder signals it before any per-file work: no start
\* event is emitted, no file is looked up, no per-file error entry is made, and
\* the call ends with the dependency exception instead of returning stats.
C15_EagerDependencyCheck ==
    (Running /\ ~RunCanRecognize)
    => /\ events = <<>>
       /\ stats.errors = <<>>
       /\ pc \notin {"check", "ocr", "index", "emit"}
       /\ pc = "returned" => ret.exc = "ImportError"

(***************************************************************************)
(* Dependencies of ocr_single_pdf, under SpecOcr.                          *)
(***************************************************************************)
\* C16 (fail fast): ocr_single_pdf on an existing file, when a capability the
\* selected strategy needs is not installed (rendering, recognition, or ocrmypdf
\* for strategy B), raises the dependency exception before any work: it returns
\* no result, not from the cache either, runs no backend and writes no cache.
C16_FailFast ==
    [][(/\ pc = "idle" /\ pc' = "called"
        /\ ret'.call = "ocr_single_pdf"
        /\ \/ missing \cap {"fitz", "pytesseract", "PIL"} # {}
           \/ ret'.use_ocrmypdf /\ "ocrmypdf" \in missing)
       => /\ ret'.exc = "ImportError"
          /\ ret'.value = None
          /\ ~ret'.backend
          /\ cache' = cache]_vars

Markers(t) == {q \in 0..Len(t) : MarkerAt(t, q) # {}}

\* The k-th boundary marker of t, from the left.
NthMarker(t, k) ==
    CHOOSE q \in Markers(t) : Cardinality({r \in Markers(t) : r < q}) = k - 1

StrategyReturned ==
    /\ pc = "called"
    /\ ret.call \in {"_ocr_via_pytesseract", "_ocr_via_ocrmypdf"}
    /\ ret.exc = NoExc

\* C18 (output shape): whichever strategy ran, for a document of P pages the
\* returned page count is P, the text contains exactly P boundary markers, the
\* k-th of them is "=== Page k ===" and is followed, after the line break, by
\* the trimmed text of page k.
C18_OutputShape ==
    StrategyReturned =>
        LET t == ret.value.text
            P == Len(ret.doc)
        IN /\ ret.value.page_count = P
           /\ Cardinality(Markers(t)) = P
           /\ \A k \in 1..P :
                 StartsAt(t, FullMarker(k) \o <<"\n">> \o Strip(ret.doc[k]),
                          NthMarker(t, k))

\* The same statement for the documents none of whose trimmed page texts
\* contains a boundary marker: there it holds.
C18_MarkerFree ==
    (StrategyReturned /\ \A k \in 1..Len(ret.doc) : Markers(Strip(ret.doc[k])) = {})
        => LET t == ret.value.text
               P == Len(ret.doc)
           IN /\ ret.value.page_count = P
              /\ Cardinality(Markers(t)) = P
              /\ \A k \in 1..P :
                    StartsAt(t, FullMarker(k) \o <<"\n">> \o Strip(ret.doc[k]),
                             NthMarker(t, k))

(***************************************************************************)
(* Properties of the write order and of a stopped run, under SpecHeal.     *)
(***************************************************************************)
\* The file the loop of the running batch call has in hand.
InHand == FileOf(run.pdf_files[run.i])

\* The upsert of the file in hand has not happened in this call.
NotYetUpserted ==
    GetIndexRecord(index, run.pdf_files[run.i])
        = GetIndexRecord(base, run.pdf_files[run.i])

\* Recognition comes before the store, the store before the upsert: when the
\* store is due the value comes from the backend and the upsert has not
\* happened; when the upsert is due, a recognized value of a caching run is
\* already in the cache.
WriteOrder ==
    /\ pc = "recognize" => NotYetUpserted
    /\ pc = "store" => tmp.backend /\ run.use_cache /\ NotYetUpserted
    /\ pc = "index" =>
          /\ NotYetUpserted
          /\ (tmp.backend /\ run.use_cache) =>
                LoadCache(cache, run.pdf_files[run.i], mtime)
                    = [text |-> tmp.text, page_count |-> tmp.page_count]

\* The running call reports f as indexed, from the cache entry.
ReportedIndexed(f) ==
    /\ \E j \in EventsOf("success") : events[j][3] = PathOf(FOLDER, f)
    /\ \A k \in 1..Len(stats.errors) : stats.errors[k] # PathOf(FOLDER, f)
    /\ HasRecord(index, f)
    /\ RecordOf(index, f).text_content
          = Truncate(LoadCache(cache, PathOf(FOLDER, f), mtime).text)

\* The running call reprocesses f: it is forced, or f has no record or a
\* record older than the file.
Reprocesses(f) ==
    run.force \/ NeedsReindex(PathOf(FOLDER, f),
                              GetIndexRecord(base, PathOf(FOLDER, f)), mtime)

\* C19 (write ordering and self-healing): for a reprocessed file the batch
\* recognizes, then stores in the cache (when use_cache), then upserts, in no
\* other order; and when an earlier run stopped after the cache store and
\* before the upsert of a file that has not changed since, a run with use_cache
\* that reprocesses the file gets a cache hit for it, never runs the backend on
\* it, indexes it and reports it as indexed.
C19_WriteOrderSelfHealing ==
    /\ WriteOrder
    /\ (pc \in {"recognize", "store"} /\ run.use_cache)
          => since[InHand] # "stopped"
    /\ (pc = "index" /\ run.use_cache /\ since[InHand] = "stopped")
          => ~tmp.backend
    /\ pc = "returned" =>
          \A f \in Files :
              (since[f] = "stopped" /\ run.use_cache /\ Reprocesses(f))
                  => ReportedIndexed(f)

\* A run without force has returned; it found one file cached by a stopped run
\* and not indexed, and has indexed it.
C19_Witness ==
    /\ pc = "returned"
    /\ run.use_cache /\ ~run.force
    /\ \E f \in Files :
          /\ since[f] = "stopped"
          /\ ~HasRecord(base, f)
          /\ ReportedIndexed(f)

\* C19 as stated, for runs with use_cache: whether or not the file still needs
\* reprocessing, the next run gets a cache hit for the file, does not run the
\* backend on it and reports it as indexed.
C19_AsStated ==
    /\ WriteOrder
    /\ (pc \in {"recognize", "store"} /\ run.use_cache)
          => since[InHand] # "stopped"
    /\ (pc = "index" /\ run.use_cache /\ since[InHand] = "stopped")
          => ~tmp.backend
    /\ pc = "returned" =>
          \A f \in Files :
              (since[f] = "stopped" /\ run.use_cache) => ReportedIndexed(f)

(***************************************************************************)
(* Properties of the index as a whole, under SpecKeep.                     *)
(***************************************************************************)
IndexedPaths(rows) == {rows[k].file_path : k \in 1..Len(rows)}

\* C20 (records are never deleted): no step of ocr_single_pdf, index_pdf,
\* batch_ocr_folder, search_keyword, export_index or of the construction of a
\* new extractor, and no removal of a source file, takes a path out of the
\* index.
C20_NeverDeleted ==
    [][IndexedPaths(index) \subseteq IndexedPaths(index')]_vars

\* File 2 has a record and is gone from the folder, and a batch call made after
\* the removal has returned.
C20_Witness ==
    /\ pc = "returned"
    /\ 2 \notin DOMAIN mtime
    /\ ret.value.total = NumFiles - 1
    /\ HasRecord(index, 2)

(***************************************************************************)
(* Properties of the cache entries, under SpecCache.                       *)
(***************************************************************************)
\* _load_cache returns a value for the payload at key k.
ReadableAt(c, k) ==
    /\ c[k] # None
    /\ "damage" \in DOMAIN c[k] => c[k].damage = "empty_object"

OcrCallStep == pc = "idle" /\ pc' = "called" /\ ret'.call = "ocr_single_pdf"

\* C21 (cache entry lifecycle): a call of ocr_single_pdf changes the cache only
\* when use_cache is set, the lookup missed and the recognition returned, and
\* then only the entry of the file's fingerprint, which becomes the returned
\* value; no call rewrites or removes an entry that can be read, and a call
\* that raises leaves the cache as it was.
C21_CacheLifecycle ==
    [][OcrCallStep =>
         LET key == CacheKey(ret'.path, mtime)
         IN /\ cache' # cache =>
                 /\ ret'.use_cache /\ ret'.exc = NoExc /\ ret'.backend
                 /\ LoadCache(cache, ret'.path, mtime) = None
                 /\ \A k \in CacheKeys \ {key} : cache'[k] = cache[k]
                 /\ LoadCache(cache', ret'.path, mtime) = ret'.value
            /\ \A k \in CacheKeys : ReadableAt(cache, k) => cache'[k] = cache[k]
            /\ ret'.exc # NoExc => cache' = cache]_vars

\* A call has stored the entry of file 1 at its new modification time while
\* the entry of the earlier modification time is still there.
C21_Witness ==
    /\ pc = "called" /\ ret.call = "ocr_single_pdf"
    /\ ret.path = PathOf(FOLDER, 1) /\ ret.backend /\ ret.use_cache
    /\ mtime[1] = 2
    /\ ReadableAt(cache, <<Resolve(PathOf(FOLDER, 1)), 1>>)
    /\ ReadableAt(cache, <<Resolve(PathOf(FOLDER, 1)), 2>>)

(***************************************************************************)
(* Properties of the fingerprint, under SpecFinger.                        *)
(***************************************************************************)
\* The fingerprint is a function of (resolved path, modification time) that
\* tells any two such pairs apart.
FingerprintIsolates ==
    (pc = "called" /\ ret.call = "_cache_key") =>
        \A folder \in ArgFolders, name \in KeyNames, m \in KeyTimes :
            (Fingerprint(folder, name, m) = ret.key)
                <=> /\ ResolveName(folder, name) = ResolveName(ret.folder, ret.name)
                    /\ m = ret.mtime_ns

\* What a call with use_cache returns was recognized from this file at its
\* present modification time; it comes from the cache only if the entry of
\* this very pair was there, and from the backend otherwise.
LookupIsolates ==
    \A f \in Files :
        (OcrCallStep /\ ret'.path = PathOf(FOLDER, f) /\ ret'.exc = NoExc)
            => /\ ret'.value.text.doc = f
               /\ ret'.value.text.ver = mtime[f]
               /\ ~ret'.backend <=>
                     cache[<<Resolve(PathOf(FOLDER, f)), mtime[f]>>] # None

\* C22 (fingerprint determinism and isolation): the fingerprint depends only on
\* the resolved path and the modification time, equal pairs give equal
\* fingerprints and distinct pairs distinct ones; a lookup never returns an
\* entry stored for another file or another modification time, and a file
\* whose modification time has no entry is recognized again.
C22_FingerprintIsolation ==
    []FingerprintIsolates /\ [][LookupIsolates]_vars

\* File 1 was cached at time 1, then changed, and the call after the change
\* has run the backend and returned the text of the new version.
C22_Witness ==
    /\ pc = "called" /\ ret.call = "ocr_single_pdf"
    /\ ret.path = PathOf(FOLDER, 1) /\ ret.backend
    /\ mtime[1] = 2 /\ ret.value.text.ver = 2
    /\ cache[<<Resolve(PathOf(FOLDER, 1)), 1>>] # None

(***************************************************************************)
(* Properties of the stored texts, under Spec.                             *)
(***************************************************************************)
\* The first n characters of a text, a text being given by its origin and its
\* length.
PrefixOf(text, n) ==
    [doc |-> text.doc, ver |-> text.ver, by |-> text.by, len |-> n]

\* C23 (text cap): the text index_pdf stores is the prefix of the text it was
\* given, of length min(len(text), 500000); no record of the index is longer
\* than the cap; a cache entry holds the whole recognized text, also when the
\* record of the same file was cut.
C23_TextCap ==
    /\ [](\A k \in 1..Len(index) : index[k].text_content.len <= TEXT_CAP)
    /\ [](\A key \in CacheKeys :
             cache[key] # None => cache[key].text.len = TextLenOf(key[1][2]))
    /\ [][pc = "index" =>
            RecordOf(index', FileOf(run.pdf_files[run.i])).text_content
                = PrefixOf(tmp.text, IF tmp.text.len < TEXT_CAP
                                     THEN tmp.text.len ELSE TEXT_CAP)]_vars

\* The record of file 1 holds the first 500000 characters, its cache entry all
\* 500001.
C23_Witness ==
    /\ HasRecord(index, 1)
    /\ RecordOf(index, 1).text_content.len = TEXT_CAP
    /\ cache[CacheKey(PathOf(FOLDER, 1), mtime)] # None
    /\ cache[CacheKey(PathOf(FOLDER, 1), mtime)].text.len = TEXT_CAP + 1
    /\ RecordOf(index, 1).text_content.ver
          = cache[CacheKey(PathOf(FOLDER, 1), mtime)].text.ver

(***************************************************************************)
(* Properties of the schema migration, under SpecMigrate.                  *)
(***************************************************************************)
ConstructStep == pc' = "called" /\ ret'.call = "__init__"

\* C24 (additive schema migration): constructing the extractor on a table
\* that lacks file_modified_at, lang or both leaves the table with both
\* columns, every row in its place with its id, path, text, page count and
\* timestamp and with the values of the columns it already had; constructing
\* it on a table that has both columns changes nothing.
C24_AdditiveMigration ==
    [][ConstructStep =>
         /\ Len(index') = Len(index)
         /\ \A k \in 1..Len(index) :
               /\ MigratedColumns \subseteq DOMAIN index'[k]
               /\ index'[k].id = index[k].id
               /\ index'[k].file_path = index[k].file_path
               /\ index'[k].text_content = index[k].text_content
               /\ index'[k].page_count = index[k].page_count
               /\ index'[k].created_at = index[k].created_at
               /\ \A c \in MigratedColumns \cap DOMAIN index[k] :
                     index'[k][c] = index[k][c]
               /\ "file_modified_at" \notin DOMAIN index[k]
                     => index'[k].file_modified_at = NULL
               /\ "lang" \notin DOMAIN index[k] => index'[k].lang = ""
         /\ (\A k \in 1..Len(index) : MigratedColumns \subseteq DOMAIN index[k])
               => index' = index]_vars

\* A table of two rows that had the language column only has been migrated:
\* the rows are there, with their languages and a null modification time.
C24_Witness ==
    /\ pc = "called" /\ ret.call = "__init__"
    /\ Len(ret.before) = MaxRows
    /\ DOMAIN ret.before[1] \cap MigratedColumns = {"lang"}
    /\ Len(index) = MaxRows
    /\ index[1].lang = ret.before[1].lang
    /\ index[1].file_modified_at = NULL

\* C25: a log file that cannot be written never raises and never changes an
\* outcome.  Whatever the log file, index_pdf returns normally having made
\* its upsert, export_index returns normally having written every record,
\* a batch step that indexes goes on to its success event with the file
\* counted as indexed and no error entry, the per-file handler appends its
\* error event and goes on with the loop, no batch call is left by an
\* exception, and no step other than the log line's own touches the log.
LogStep ==
    /\ pc' # "raised"
    /\ log'.writable = log.writable
    /\ (~log.writable => log' = log)
    /\ (pc = "idle" /\ pc' = "called" /\ ret'.call = "index_pdf"
          => /\ ret'.exc = NoExc
             /\ index' = Upsert(index, ret'.path, ret'.text, ret'.page_count,
                                now, ret'.modified_ns, Language(ret'.lang))
             /\ cache' = cache)
    /\ (pc = "idle" /\ pc' = "called" /\ ret'.call = "export_index"
          => /\ ret'.exc = NoExc
             /\ ret'.file = JsonDump(ExportRows(index))
             /\ index' = index
             /\ cache' = cache)
    /\ (pc = "index"
          => /\ pc' = "emit"
             /\ stats' = [stats EXCEPT
                            !.indexed = stats.indexed + 1,
                            !.updated = IF UpsertAction(index, run.pdf_files[run.i])
                                           = "updated"
                                        THEN stats.updated + 1 ELSE stats.updated]
             /\ events' = events
             /\ index' = Upsert(index, run.pdf_files[run.i], tmp.text,
                                tmp.page_count, now,
                                mtime[FileOf(run.pdf_files[run.i])], DEFAULT_LANG))
    /\ (pc = "ocr" /\ stats' # stats
          => /\ pc' = "loop"
             /\ stats' = [stats EXCEPT
                            !.errors = Append(stats.errors, run.pdf_files[run.i])]
             /\ events' = Append(events, Event(run.i, "error"))
             /\ index' = index)

C25_LogFailsSilently == [][LogStep]_vars

\* A batch call has returned with a file indexed and a file in error, on a
\* log file that cannot be written.
C25_Witness ==
    /\ ~log.writable
    /\ pc = "returned"
    /\ ret.exc = NoExc
    /\ ret.value.indexed > 0
    /\ Len(ret.value.errors) > 0

\* C26: crash consistency of a batch run.  While the run is under way and
\* after it was interrupted at any point, the record of every file whose
\* upsert has not finished in this run (a later file, and the file in hand up
\* to its commit or when its transaction was rolled back) is its complete
\* value from before the batch; the index changes only in the step that finishes an upsert, and
\* then by the complete record of the file in hand (all of its columns, the
\* other records as they were); the interruption itself and every later step
\* of the run keep the records committed for the earlier files.
Unfinished(k) ==
    IF pc \in {"emit", "loop", "interrupted"} THEN k > run.i ELSE k >= run.i

PreBatchOrFinished ==
    pc \in BatchPcs \cup {"interrupted", "rolledback"}
        => \A k \in 1..Len(run.pdf_files) :
              Unfinished(k)
                 => GetIndexRecord(index, run.pdf_files[k])
                       = GetIndexRecord(base, run.pdf_files[k])

WholeUpsertOrNothing ==
    pc \in BatchPcs
        => IF pc = "commit" /\ pc' \in {"emit", "loop"}
           THEN \E m \in Times :
                   index' = Upsert(index, run.pdf_files[run.i], tmp.text,
                                   tmp.page_count, now, m, DEFAULT_LANG)
           ELSE index' = index

C26_CrashConsistency == []PreBatchOrFinished /\ [][WholeUpsertOrNothing]_vars

\* The run was interrupted inside the transaction of its second file, whose
\* statement would have changed the table; the first file's record is the
\* one this run committed.
C26_Witness ==
    /\ pc = "rolledback"
    /\ run.i = 2
    /\ stats.indexed = 1
    /\ GetIndexRecord(index, run.pdf_files[1]) # GetIndexRecord(base, run.pdf_files[1])
    /\ GetIndexRecord(index, run.pdf_files[2]) = GetIndexRecord(base, run.pdf_files[2])

\* C27: a file that the batch skips causes no work.  A skip event is emitted
\* only by the step that follows the file's start event, with no result of a
\* recognition in hand; that step leaves the cache, the scratch files and the
\* whole index as they were, so the file's record, its timestamp included,
\* is the one it had, and only the skipped counter moves.
EmitsSkip ==
    /\ Len(events') = Len(events) + 1
    /\ events'[Len(events')][4] = "skip"

SkipStep ==
    EmitsSkip
       => /\ pc = "check"
          /\ events[Len(events)] = Event(run.i, "start")
          /\ events'[Len(events')][3] = run.pdf_files[run.i]
          /\ tmp = None /\ tmp' = None
          /\ cache' = cache
          /\ scratch' = scratch
          /\ index' = index
          /\ GetIndexRecord(index', run.pdf_files[run.i]) # None
          /\ stats' = [stats EXCEPT !.skipped = stats.skipped + 1]

C27_SkipNoWork == [][SkipStep]_vars

\* A file was just skipped by a run that uses the cache, and the cache holds
\* no entry for it: a recognition would have stored one.
C27_Witness ==
    /\ pc = "loop"
    /\ run.i > 0
    /\ run.use_cache
    /\ events[Len(events)] = Event(run.i, "skip")
    /\ readable[FileOf(run.pdf_files[run.i])]
    /\ LoadCache(cache, run.pdf_files[run.i], mtime) = None

\* C28: malformed index rows degrade to reprocessing.  In a run that is not
\* forced, the decision about a file whose record holds a NULL modification
\* time or a value that is not an integer is to recognize the file again: the
\* step raises nothing, records no error and emits no event.
NotAnInteger == {TEXT_ABC, REAL_1E30, REAL_INF}

MalformedRecord(p) ==
    /\ GetIndexRecord(index, p) # None
    /\ GetIndexRecord(index, p).file_modified_at \in {NULL} \cup NotAnInteger

MalformedStep ==
    pc = "check" /\ ~run.force /\ MalformedRecord(run.pdf_files[run.i])
        => /\ pc' = "ocr"
           /\ stats' = stats
           /\ events' = events

C28_MalformedReprocessed == [][MalformedStep]_vars

\* C28, the part that holds: a NULL modification time, and a stored value
\* that int() rejects with ValueError, lead to recognizing the file again.
RejectedStep ==
    /\ pc = "check" /\ ~run.force
    /\ GetIndexRecord(index, run.pdf_files[run.i]) # None
    /\ GetIndexRecord(index, run.pdf_files[run.i]).file_modified_at
          \in {NULL, TEXT_ABC}
    => /\ pc' = "ocr"
       /\ stats' = stats
       /\ events' = events

C28_NullOrRejected == [][RejectedStep]_vars

\* C29: index identity is the resolved path.  The index never holds two
\* records whose paths resolve to the same location, and a run that is not
\* forced skips a file that has an up-to-date record under any spelling of
\* its path.
SameLocation(p, q) == Resolve(p) = Resolve(q)

SingleRecord ==
    \A j, k \in 1..Len(index) :
        SameLocation(index[j].file_path, index[k].file_path) => j = k

AlreadyIndexed(p) ==
    \E k \in 1..Len(index) :
        /\ SameLocation(index[k].file_path, p)
        /\ index[k].file_modified_at >= mtime[FileOf(p)]

SecondRunSkips ==
    pc = "check" /\ ~run.force /\ AlreadyIndexed(run.pdf_files[run.i])
        => /\ pc' = "loop"
           /\ events' = Append(events, Event(run.i, "skip"))

C29_ResolvedIdentity == []SingleRecord /\ [][SecondRunSkips]_vars

\* C29, the part that holds: the index never holds two records with the same
\* path string.
C29_SpelledIdentity ==
    \A j, k \in 1..Len(index) :
        index[j].file_path = index[k].file_path => j = k

\* C30: the language of a record written by the batch is the language its
\* text was recognized with.  The record gets the language of the request,
\* and a text the cache serves to the request comes from an entry that was
\* produced with the requested language, DPI and strategy.
InHandEntry == cache[CacheKey(run.pdf_files[run.i], mtime)]

ServedFromCache ==
    /\ pc = "ocr" /\ pc' = "index"
    /\ run.use_cache
    /\ LoadCache(cache, run.pdf_files[run.i], mtime) # None

CacheServesRequest ==
    ServedFromCache
       => /\ InHandEntry.lang = Language(run.lang)
          /\ InHandEntry.dpi = run.dpi
          /\ InHandEntry.ocrmypdf = run.use_ocrmypdf

RecordsRequestedLanguage ==
    pc = "index" /\ pc' = "emit"
       => GetIndexRecord(index', run.pdf_files[run.i]).lang = Language(run.lang)

C30_RecordedLanguage == [][CacheServesRequest /\ RecordsRequestedLanguage]_vars

\* C30, the part that holds: the record gets the language of the request,
\* and when the strategy runs in a cache-using request, the entry it stores
\* carries the request's language, DPI and strategy with the text.
StoresRequest ==
    pc = "ocr" /\ pc' = "index" /\ run.use_cache /\ ~ServedFromCache
       => cache'[CacheKey(run.pdf_files[run.i], mtime)]
             = [text |-> tmp'.text, page_count |-> tmp'.page_count,
                lang |-> Language(run.lang), dpi |-> run.dpi,
                ocrmypdf |-> run.use_ocrmypdf]

C30_RequestRecorded == [][StoresRequest /\ RecordsRequestedLanguage]_vars

\* C31: the records export_index writes are ordered by record creation time,
\* descending: in the exported document no record comes before one that was
\* created later.
C31_ExportOrder ==
    pc = "called" /\ ret.call = "export_index"
        => \A j, k \in 1..Len(JsonLoad(ret.file)) :
              j < k => JsonLoad(ret.file)[j].created_at
                          >= JsonLoad(ret.file)[k].created_at

\* The snippet the claim describes for a window around position p of text t.
WindowSnippet(t, p, klen, c) ==
    LET ws == Max(0, p - c)
        we == Min(Len(t), p + klen + c)
    IN (IF ws > 0 THEN Ellipsis ELSE <<>>)
       \o Replace(Slice(t, ws, we))
       \o (IF we < Len(t) THEN Ellipsis ELSE <<>>)

ContainsFolded(t, sub) == Find(Lower(t), Lower(sub), 0) # -1

\* C32: snippet window and ellipsis.  The snippet of a result is the text
\* from max(0, match_start - c) to min(len(text), match_end + c) around the
\* first occurrence of the keyword in the record's text, newlines replaced by
\* spaces, with the leading marker exactly when the window starts past the
\* beginning of the text and the trailing marker exactly when it ends before
\* the end; for c >= 0 it contains the matched keyword.
C32_SnippetWindow ==
    SearchCalled
    => \A j \in 1..Len(ret.results) :
          LET r == ret.results[j]
              t == TextOf(r.file_path)
              p == TruePos(t, r.keyword)
          IN /\ r.snippet = WindowSnippet(t, p, Len(r.keyword), ret.context_chars)
             /\ ret.context_chars >= 0 => ContainsFolded(r.snippet, r.keyword)

\* C32, the part that holds: the window and the markers are those of the
\* position found in the lower-cased text, and the snippet contains the
\* keyword when lower-casing keeps every character of the text in its place.
KeepsPlaces(t) == \A i \in 1..Len(t) : Len(LowerChar(t[i])) = 1

C32_WindowOfPosition ==
    SearchCalled
    => \A j \in 1..Len(ret.results) :
          LET r == ret.results[j]
              t == TextOf(r.file_path)
              position == Find(Lower(t), Lower(r.keyword), 0)
          IN /\ r.snippet = WindowSnippet(t, position, Len(r.keyword),
                                          ret.context_chars)
             /\ ret.context_chars >= 0 /\ KeepsPlaces(t)
                  => ContainsFolded(r.snippet, r.keyword)

\* C33: aggregate consistency.  When a batch call returns, every discovered
\* file is counted in exactly one of indexed, skipped and the error list:
\* indexed + skipped + len(errors) = total, and updated <= indexed; for every
\* progress sink.
C33_AggregateConsistency ==
    pc = "returned"
        => /\ ret.value.indexed + ret.value.skipped + Len(ret.value.errors)
                 = ret.value.total
           /\ ret.value.updated <= ret.value.indexed

\* C33, the part that holds: the counts add up for a sink that raises at
\* neither outcome event; for every sink each file is counted at least once
\* and at most twice, and updated <= indexed.
C33_CountedOnceOrTwice ==
    pc = "returned"
        => /\ ret.value.updated <= ret.value.indexed
           /\ ret.value.indexed + ret.value.skipped + Len(ret.value.errors)
                 >= ret.value.total
           /\ ret.value.indexed + ret.value.skipped + Len(ret.value.errors)
                 <= 2 * ret.value.total
           /\ run.sink \cap {"skip", "success"} = {}
                 => ret.value.indexed + ret.value.skipped + Len(ret.value.errors)
                       = ret.value.total

\* C34: state unchanged on per-file error.  While a batch call runs and when
\* it has returned, every file whose handling ended with an error event has
\* the record it had before (none, if it had none), and no step of the run
\* changes the record of a file other than the one in hand.
ErrorFiles == {events[j][3] : j \in {e \in 1..Len(events) : events[e][4] = "error"}}

ErrorKeepsRecord ==
    pc \in {"loop", "check", "ocr", "index", "emit", "returned"}
        => \A p \in ErrorFiles : GetIndexRecord(index, p) = GetIndexRecord(base, p)

OnlyFileInHand ==
    pc \in {"check", "ocr", "index", "emit"}
        => \A k \in 1..Len(run.pdf_files) :
              k # run.i => GetIndexRecord(index', run.pdf_files[k])
                              = GetIndexRecord(index, run.pdf_files[k])

C34_ErrorKeepsIndex == []ErrorKeepsRecord /\ [][OnlyFileInHand]_vars

\* C34, the part that holds: the same, for the error events of a run whose
\* sink does not raise at the success event.
ErrorBeforeUpsert ==
    ~SinkRaises("success") => ErrorKeepsRecord

C34_ErrorBeforeUpsert == []ErrorBeforeUpsert /\ [][OnlyFileInHand]_vars

\* C35: whenever OCR text is persisted, the modification time bound to it (the
\* one in the fingerprint of its cache entry, the file_modified_at of its
\* record) is the one the file had when the text was recognized, also when
\* the file is rewritten during the call; so a file rewritten after its
\* recognition started is stale for the next check and the cache holds no
\* older text under its present fingerprint.
BoundInCache ==
    \A k \in CacheKeys :
        (cache[k] # None /\ "damage" \notin DOMAIN cache[k]) => cache[k].text.ver = k[2]

BoundInIndex ==
    \A k \in 1..Len(index) : index[k].text_content.ver = index[k].file_modified_at

C35_TimeOfRecognition == BoundInCache /\ BoundInIndex

\* C36: the lookup and the write of index_pdf are atomic.  With two callers
\* inside index_pdf for the same path, the action of each call whose write
\* has taken effect says whether the path had a record at that moment (so
\* for a new path one call reports "inserted" and the other "updated"), and
\* the index holds no second record for the path.
ReportAgrees(c) ==
    tmp[c].at \in {"written", "returned"}
        => tmp[c].action = IF tmp[c].existed THEN "updated" ELSE "inserted"

OneRecordOf(p) ==
    Cardinality({k \in 1..Len(index) : index[k].file_path = p}) <= 1

C36_AtomicLookupWrite ==
    pc = "pair" => /\ \A c \in Callers : ReportAgrees(c)
                   /\ \A c \in Callers : OneRecordOf(tmp[c].path)

\* C36, the part that holds: after the two calls the index holds exactly one
\* record for the path, with the text of the call that wrote last; and a call
\* that found a record reports "updated" rightly.
C36_OneRecordLastWriter ==
    pc = "pair" =>
        /\ \A c \in Callers :
              tmp[c].at \in {"written", "returned"}
                 => Cardinality({k \in 1..Len(index) :
                                    index[k].file_path = tmp[c].path}) = 1
        /\ \A c \in Callers :
              (tmp[c].at \in {"written", "returned"} /\ tmp[c].action = "updated")
                 => tmp[c].existed

\* C37: search_keyword returns at most one result per record; the snippet and
\* the inferred page of a result are those of the first case-insensitive
\* occurrence of the keyword in the record's text, later occurrences give no
\* further result, the keyword of the result is the stripped keyword and its
\* score is 1.0.
OnePerRecord(R) ==
    \A i, j \in 1..Len(R) : i # j => R[i].file_path # R[j].file_path

CarriesKeyword(r) == r.keyword = Strip(ret.keyword) /\ r.score = SCORE

C37_FirstOccurrence ==
    SearchCalled
    => /\ OnePerRecord(ret.results)
       /\ \A j \in 1..Len(ret.results) :
             LET r == ret.results[j]
                 t == TextOf(r.file_path)
                 p == TruePos(t, r.keyword)
             IN /\ CarriesKeyword(r)
                /\ r.snippet = BuildSnippet(t, p, Len(r.keyword), ret.context_chars)
                /\ r.page = InferPageNumber(t, p)

\* C37, the part that holds: one result per record with the stripped keyword
\* and the score, and the snippet and page of the first occurrence for the
\* texts whose characters lower-casing keeps in their places.
C37_FirstOccurrenceInPlace ==
    SearchCalled
    => /\ OnePerRecord(ret.results)
       /\ \A j \in 1..Len(ret.results) :
             LET r == ret.results[j]
                 t == TextOf(r.file_path)
                 p == TruePos(t, r.keyword)
             IN /\ CarriesKeyword(r)
                /\ KeepsPlaces(t)
                     => /\ r.snippet = BuildSnippet(t, p, Len(r.keyword),
                                                    ret.context_chars)
                        /\ r.page = InferPageNumber(t, p)

\* C38: batch termination.  With every recognition call and sink call
\* returning or raising, a started batch call comes to its return with each
\* file handled exactly once (one start event per file, none twice), and
\* every file that got a start event gets a terminal event.
InBatch == pc \in {"loop", "check", "ocr", "index", "emit"}

EventsOfKind(k, kinds) == {e \in 1..Len(events) : events[e][1] = k /\ events[e][4] \in kinds}

StartedOnce ==
    /\ \A k \in 1..NumFiles : Cardinality(EventsOfKind(k, {"start"})) <= 1
    /\ pc = "returned"
          => \A k \in 1..Len(run.pdf_files) : Cardinality(EventsOfKind(k, {"start"})) = 1

StartLeadsToTerminal ==
    \A k \in 1..NumFiles :
        (EventsOfKind(k, {"start"}) # {}) ~> (EventsOfKind(k, {"skip", "success", "error"}) # {})

C38_BatchTermination ==
    /\ InBatch ~> (pc = "returned")
    /\ []StartedOnce
    /\ StartLeadsToTerminal

\* C38, the part that holds: every started call ends, by its return or by the
\* exception of a sink; no file is started twice; and with a sink that raises
\* neither at the start event nor at the error event the call returns with
\* every file started once and every start followed by a terminal event.
SinkKeepsLoop == ~SinkRaises("start") /\ ~SinkRaises("error")

C38_TerminatesOrRaises ==
    /\ InBatch ~> (pc \in {"returned", "raised"})
    /\ (InBatch /\ SinkKeepsLoop) ~> (pc = "returned")
    /\ []StartedOnce
    /\ \A k \in 1..NumFiles :
          (EventsOfKind(k, {"start"}) # {} /\ SinkKeepsLoop)
              ~> (EventsOfKind(k, {"skip", "success", "error"}) # {})

\* C39: SearchDialog search lifecycle.  After _start_search has disabled the
\* search button and started the worker, the button is eventually enabled
\* again on the UI thread, when search_keyword returns and when it raises
\* (the error handler runs and shows the error message); and no second
\* worker is started while one is alive.
AliveThreads == {t \in 1..Len(gui.threads) : gui.threads[t].at # "done"}

OneWorker == Cardinality(AliveThreads) <= 1

InExcept(t) == t \in 1..Len(gui.threads) /\ gui.threads[t].at = "except"

C39_SearchLifecycle ==
    /\ (gui.search_btn = "disabled") ~> (gui.search_btn = "normal")
    /\ \A t \in 1..MaxSearches :
          InExcept(t) ~> (gui.search_btn = "normal" /\ ErrorText \in gui.shown)
    /\ []OneWorker

\* C39, the part that holds: at most one worker is alive, a completion
\* callback enables the button, and the error handler enables it and shows
\* the message when its callback runs before the worker has left the except
\* block.
Pending(kind) == \E j \in 1..Len(gui.after) : gui.after[j].kind = kind

C39_CompleteReenables ==
    /\ Pending("complete") ~> (gui.search_btn = "normal")
    /\ \A t \in 1..MaxSearches :
          InExcept(t) ~> (t \in gui.died \/ ErrorText \in gui.shown)
    /\ []OneWorker

\* C40: PDFWorker.run reports each operation through exactly one callback.
\* With both callbacks supplied, run has invoked on_complete once and on_error
\* never when the operation succeeded, and on_error once and on_complete
\* never when the operation raised or its name is unknown; also when
\* on_complete itself raises.
Succeeded == job.operation \in Operations /\ ~job.fails

BothSupplied == job.on_complete # "" /\ job.on_error # ""

C40_ExactlyOneCallback ==
    (job.at = "done" /\ BothSupplied)
        => job.calls = IF Succeeded THEN <<"on_complete">> ELSE <<"on_error">>

\* C40, the part that holds: the same for an on_complete that returns, and
\* in every case on_complete is invoked at most once, only after a successful
\* operation, and on_error at most once.
CountOf(name) == Cardinality({j \in 1..Len(job.calls) : job.calls[j] = name})

C40_OneCallbackWhenCompleteReturns ==
    /\ (job.at = "done" /\ BothSupplied /\ job.on_complete = "returns")
          => job.calls = IF Succeeded THEN <<"on_complete">> ELSE <<"on_error">>
    /\ CountOf("on_complete") <= 1
    /\ CountOf("on_error") <= 1
    /\ CountOf("on_complete") = 1 => Succeeded

====
